---- MODULE Spec2Model ----
(***************************************************************************)
(* Log retrieval pipeline of the ECS crash notifier                        *)
(* (src/lambda/crash_notifier): enrich_crash_data -> get_recent_logs ->    *)
(* detect_log_destination -> backend adapters (Elasticsearch, Coralogix,   *)
(* CloudWatch).  One resolution is a sequential run; the state is cut at   *)
(* every outbound call, whose answer is chosen by the environment.         *)
(*                                                                         *)
(* Python strings that the code takes apart (task ARN, container name,     *)
(* stream prefix, stream names) are sequences of one-character strings;    *)
(* the empty string is << >>.  Strings that the code only tests for        *)
(* truthiness or equality are TLA+ strings.                                *)
(***************************************************************************)
EXTENDS Integers, Sequences, FiniteSets, TLC

\* Largest number of entries a stubbed backend answers with.
MaxHits == 2
\* Longest string drawn for the stream-name inputs.
MaxStrLen == 2

VARIABLES
    env,              \* os.environ, the keys the pipeline reads
    crash_info,       \* the crash context dict, mutated in place
    enriched,         \* enrich_crash_data's copy
    entry,            \* which function the caller invoked
    pc,               \* position of the run
    log_destination,  \* get_recent_logs' local
    logs,             \* the adapter result get_recent_logs last looked at
    log_config,       \* get_cloudwatch_logs' local
    log_stream,       \* get_logs_with_config's local
    result,           \* what get_recent_logs returned
    trace,            \* history: outbound calls and adapter returns, in order
    sn,               \* inputs and output of the stream-name construction
    cw,               \* get_logs_with_config: the candidate name and the lookups' answers
    pf,               \* inputs and output of a parsing function run on its own
    stub              \* what each backend has answered, and the run it answers to

vars == <<env, crash_info, enriched, entry, pc, log_destination, logs,
          log_config, log_stream, result, trace, sn, cw, pf, stub>>

(***************************************************************************)
(* Strings                                                                 *)
(***************************************************************************)
SLASH == "/"

\* str.split('/')[-1]: the part after the last '/', the whole string if none.
RECURSIVE LastSegment(_)
LastSegment(s) ==
    IF s = << >> THEN << >>
    ELSE IF s[Len(s)] = SLASH THEN << >>
    ELSE LastSegment(SubSeq(s, 1, Len(s) - 1)) \o <<s[Len(s)]>>

\* `sub in s` for Python strings.
Contains(s, sub) ==
    \E i \in 1..(Len(s) - Len(sub) + 1) : SubSeq(s, i, i + Len(sub) - 1) = sub

\* str.lower() on the values the enable flags take.
Lower(s) ==
    CASE s = "TRUE" -> "true"
      [] s = "True" -> "true"
      [] OTHER -> s

\* Python truthiness of an environment value: None and '' are falsy.  An unset
\* variable is "".
Truthy(v) == v # ""

(***************************************************************************)
(* The values the environment and the event are drawn from                 *)
(***************************************************************************)
UNSET == "<unset>"
FlagValues == {UNSET, "true", "TRUE", "false"}
CredValues == {"", "v"}

EnvValues ==
    [ENABLE_ELASTICSEARCH_INTEGRATION : FlagValues,
     ELASTICSEARCH_ENDPOINT : CredValues,
     ELASTICSEARCH_USERNAME : CredValues,
     ELASTICSEARCH_PASSWORD : CredValues,
     ENABLE_CORALOGIX_INTEGRATION : FlagValues,
     CORALOGIX_API_KEY : CredValues,
     CORALOGIX_REGION : CredValues]

\* os.environ.get(name, default) for a flag.
EnvGet(v, default) == IF v = UNSET THEN default ELSE v

ContainerName == <<"w">>
TaskArn == <<"c", "/", "t">>
TaskId == <<"t">>
StreamPrefix == <<"e">>
LogGroup == <<"g">>

\* failed_container: None, a container dict without a name, a named container.
\* A key that is missing and a key holding '' or None take the same branches
\* (`not x`, .get(key, '')), so << >> and "" stand for both.
ContainerValues ==
    {[isNone |-> TRUE, name |-> << >>],
     [isNone |-> FALSE, name |-> << >>],
     [isNone |-> FALSE, name |-> ContainerName]}

NOT_SET == "NOT SET"

CrashInfoValues ==
    [failed_container : ContainerValues,
     task_arn : {<< >>, TaskArn},
     task_definition_arn : {"", "td"},
     has_service_name : {TRUE},   \* extract_crash_info always sets service_name
     log_source : {NOT_SET},
     has_recent_logs : {FALSE},
     recent_logs : {<< >>},
     logs_count : {0}]

NoEnriched ==
    [made |-> FALSE, log_source |-> NOT_SET, has_recent_logs |-> FALSE,
     recent_logs |-> << >>, has_details |-> FALSE]

NoLogConfig == [truthy |-> FALSE, group |-> << >>, prefix |-> << >>]

\* Before get_logs_with_config has looked anything up.
NoCw == [candidate |-> << >>, group |-> << >>,
         first_answered |-> FALSE, first |-> << >>,
         recent_answered |-> FALSE, recent |-> << >>,
         lookup_raised |-> FALSE]

\* No parsing function is being run on its own.
NoPf == [fn |-> "none"]

\* No backend has answered yet; the resolution is the first on this context.
NoAnswer == [set |-> FALSE, val |-> << >>]
NoStub == [run |-> 1, first |-> << >>, first_destination |-> "",
           answers |-> [es |-> NoAnswer, cx |-> NoAnswer, taskdef |-> NoAnswer,
                        ds1 |-> NoAnswer, ds2 |-> NoAnswer, events |-> NoAnswer]]

NoSn == [prefix |-> << >>, container |-> << >>, task_arn |-> << >>,
         done |-> FALSE, built |-> FALSE, stream |-> << >>]

(***************************************************************************)
(* History                                                                 *)
(***************************************************************************)
\* An outbound call (HTTP request or AWS API call) is issued.
Call(api) == [kind |-> "call", who |-> api, outcome |-> "", n |-> 0]
\* A function of the pipeline is entered.
Enter(fn) == [kind |-> "enter", who |-> fn, outcome |-> "", n |-> 0]
\* The adapter of `backend` returns l after its call ended with `outcome`.
Ret(backend, outcome, l) ==
    [kind |-> "ret", who |-> backend, outcome |-> outcome, n |-> Len(l)]
\* The adapter of `backend` lets an exception escape.
Raise(backend, outcome) ==
    [kind |-> "raise", who |-> backend, outcome |-> outcome, n |-> 0]

\* n entries supplied by `backend`.
Entries(backend, n) == [i \in 1..n |-> [backend |-> backend, i |-> i]]

(***************************************************************************)
(* The backends                                                            *)
(***************************************************************************)
\* The backend `key` answers val.  A backend answers the same request the
\* same way: once it has answered, a later resolution gets that answer.
Stubbed(key, val) ==
    IF stub.answers[key].set
    THEN /\ val = stub.answers[key].val
         /\ UNCHANGED stub
    ELSE stub' = [stub EXCEPT !.answers[key] = [set |-> TRUE, val |-> val]]

(***************************************************************************)
(* elasticsearch_utils.detect_log_destination                              *)
(***************************************************************************)
detect_log_destination_noflag(e) ==
    IF Truthy(e.ELASTICSEARCH_ENDPOINT) /\ Truthy(e.ELASTICSEARCH_USERNAME)
         /\ Truthy(e.ELASTICSEARCH_PASSWORD)
    THEN "elasticsearch"
    ELSE IF Truthy(e.CORALOGIX_API_KEY) /\ Truthy(e.CORALOGIX_REGION)
    THEN "coralogix"
    ELSE "cloudwatch"

elasticsearch_enabled(e) ==
    Lower(EnvGet(e.ENABLE_ELASTICSEARCH_INTEGRATION, "false")) = "true"

coralogix_enabled(e) ==
    Lower(EnvGet(e.ENABLE_CORALOGIX_INTEGRATION, "false")) = "true"

detect_log_destination(e) ==
    IF elasticsearch_enabled(e) /\ Truthy(e.ELASTICSEARCH_ENDPOINT)
         /\ Truthy(e.ELASTICSEARCH_USERNAME) /\ Truthy(e.ELASTICSEARCH_PASSWORD)
    THEN "elasticsearch"
    ELSE IF coralogix_enabled(e) /\ Truthy(e.CORALOGIX_API_KEY)
              /\ Truthy(e.CORALOGIX_REGION)
    THEN "coralogix"
    ELSE "cloudwatch"


(***************************************************************************)
(* Return paths of get_recent_logs                                         *)
(***************************************************************************)
\* get_recent_logs hands `r` back to its caller.
ReturnFromGetRecentLogs(r) ==
    /\ result' = r
    /\ pc' = IF entry = "enrich_crash_data" THEN "enrich_logs" ELSE "done"

\* logs_utils.get_recent_logs, except Exception: the error is printed, [] returned.
grl_except == [raised |-> FALSE, logs |-> << >>]

\* An adapter raised into get_recent_logs' try block.
RaisedIntoGetRecentLogs ==
    IF grl_except.raised
    THEN /\ pc' = "raised"
         /\ UNCHANGED result
    ELSE ReturnFromGetRecentLogs(grl_except.logs)

(***************************************************************************)
(* ecs_utils.enrich_crash_data, lines 76-88                                *)
(***************************************************************************)
EnrichCrashData ==
    /\ pc = "enrich"
    /\ enriched' = [made |-> TRUE,
                    log_source |-> crash_info.log_source,
                    has_recent_logs |-> crash_info.has_recent_logs,
                    recent_logs |-> crash_info.recent_logs,
                    has_details |-> FALSE]
    /\ pc' = IF ~crash_info.failed_container.isNone THEN "grl" ELSE "enrich_details"
    /\ UNCHANGED <<env, crash_info, entry, log_destination, logs, log_config,
                   log_stream, result, trace, sn, cw, pf, stub>>

(***************************************************************************)
(* logs_utils.get_recent_logs, lines 15-30                                 *)
(***************************************************************************)
GetRecentLogs ==
    /\ pc = "grl"
    /\ IF crash_info.failed_container.isNone
       THEN /\ ReturnFromGetRecentLogs(<< >>)
            /\ UNCHANGED log_destination
       ELSE /\ log_destination' = detect_log_destination(env)
            /\ pc' = "L32"
            /\ UNCHANGED result
    /\ trace' = Append(trace, Enter("get_recent_logs"))
    /\ UNCHANGED <<env, crash_info, enriched, entry, logs, log_config,
                   log_stream, sn, cw, pf, stub>>

(***************************************************************************)
(* elasticsearch_utils.get_elasticsearch_logs                              *)
(***************************************************************************)
\* lines 25-27
es_configured(e) ==
    Truthy(e.ELASTICSEARCH_ENDPOINT) /\ Truthy(e.ELASTICSEARCH_USERNAME)
        /\ Truthy(e.ELASTICSEARCH_PASSWORD)

\* lines 29-32
es_has_task_arn_unchecked(ci) == TRUE

\* Variant of lines 29-32 that also gives up on a context already tagged.
es_has_task_arn_untagged(ci) == ci.task_arn # << >> /\ ci.log_source = NOT_SET

es_has_task_arn(ci) == ci.task_arn # << >>

\* lines 107-112: both handlers print and return [].
es_except_reraise(outcome) == [raised |-> TRUE, logs |-> << >>]

es_except(outcome) == [raised |-> FALSE, logs |-> << >>]

\* Variant of lines 107-110 that sends the request again after a timeout.
es_retry_on_timeout(outcome) == outcome = "timeout"

\* lines 60-69 and 107-112: one request; a failed one is not sent again.
es_retry(outcome) == FALSE

\* What the HTTP call of lines 60-69 can do.
HttpOutcomes == {"ok", "timeout", "connection_error", "http_error", "malformed"}

\* logs_utils.get_recent_logs line 36, `if logs:`
es_logs_found_never(l) == FALSE

es_logs_found(l) == l # << >>

\* line 32
elasticsearch_branch(d) == d = "elasticsearch"

\* get_recent_logs lines 32-34 with get_elasticsearch_logs up to its request.
TryElasticsearch ==
    /\ pc = "L32"
    /\ IF elasticsearch_branch(log_destination)
       THEN IF es_configured(env) /\ es_has_task_arn(crash_info)
            THEN /\ crash_info' = [crash_info EXCEPT !.log_source = "elasticsearch"]
                 /\ trace' = trace \o <<Enter("get_elasticsearch_logs"),
                                         Call("es_search")>>
                 /\ pc' = "es_wait"
                 /\ UNCHANGED logs
            ELSE \* returned [] before any request; line 41 falls through
                 /\ trace' = trace \o <<Enter("get_elasticsearch_logs"),
                                         Ret("elasticsearch", "not_attempted", << >>)>>
                 /\ logs' = << >>
                 /\ pc' = "L45"
                 /\ UNCHANGED crash_info
       ELSE /\ pc' = "L45"
            /\ UNCHANGED <<crash_info, trace, logs>>
    /\ UNCHANGED <<env, enriched, entry, log_destination, log_config,
                   log_stream, result, sn, cw, pf, stub>>

\* get_elasticsearch_logs lines 68-112, then get_recent_logs lines 35-43.
ElasticsearchResponse ==
    /\ pc = "es_wait"
    /\ \E outcome \in HttpOutcomes, n \in 0..MaxHits :
         LET r == IF outcome = "ok"
                  THEN [raised |-> FALSE, logs |-> Entries("elasticsearch", n)]
                  ELSE es_except(outcome)
             ci1 == IF outcome = "ok"
                    THEN [crash_info EXCEPT !.has_recent_logs = TRUE,
                                            !.recent_logs = r.logs,
                                            !.logs_count = Len(r.logs)]
                    ELSE crash_info
         IN  /\ outcome # "ok" => n = 0
             /\ Stubbed("es", [outcome |-> outcome, n |-> n])
             /\ IF outcome # "ok" /\ es_retry(outcome)
                THEN /\ trace' = Append(trace, Call("es_search"))
                     /\ UNCHANGED <<crash_info, logs, pc, result>>
                ELSE IF r.raised
                THEN /\ trace' = Append(trace, Raise("elasticsearch", outcome))
                     /\ crash_info' = ci1
                     /\ logs' = << >>
                     /\ RaisedIntoGetRecentLogs
                ELSE /\ trace' = Append(trace, Ret("elasticsearch", outcome, r.logs))
                     /\ logs' = r.logs
                     /\ IF es_logs_found(r.logs)
                        THEN /\ crash_info' = [ci1 EXCEPT !.log_source = "elasticsearch"]
                             /\ ReturnFromGetRecentLogs(r.logs)
                        ELSE /\ crash_info' = ci1
                             /\ pc' = "L45"
                             /\ UNCHANGED result
    /\ UNCHANGED <<env, enriched, entry, log_destination, log_config,
                   log_stream, sn, cw, pf>>

(***************************************************************************)
(* coralogix_utils.get_coralogix_logs                                      *)
(***************************************************************************)
\* lines 20-25
cx_configured(e) == Truthy(e.CORALOGIX_API_KEY) /\ Truthy(e.CORALOGIX_REGION)

\* lines 27-30
cx_has_task_arn(ci) == ci.task_arn # << >>

\* lines 186-193
cx_except_reraise(outcome) == [raised |-> TRUE, logs |-> << >>]

cx_except(outcome) == [raised |-> FALSE, logs |-> << >>]

\* logs_utils.get_recent_logs line 49, `if logs:`
cx_logs_found(l) == l # << >>

\* line 45
coralogix_branch_after_es(d) == d \in {"coralogix", "elasticsearch"}

coralogix_branch(d) == d = "coralogix"

\* get_recent_logs lines 45-47 with get_coralogix_logs up to its request.
TryCoralogix ==
    /\ pc = "L45"
    /\ IF coralogix_branch(log_destination)
       THEN IF cx_configured(env) /\ cx_has_task_arn(crash_info)
            THEN \* line 34, then line 37 reads crash_info['service_name']
                 /\ crash_info' = [crash_info EXCEPT !.log_source = "coralogix"]
                 /\ IF crash_info.has_service_name
                    THEN /\ trace' = trace \o <<Enter("get_coralogix_logs"),
                                                 Call("coralogix_query")>>
                         /\ pc' = "cx_wait"
                         /\ UNCHANGED <<logs, result>>
                    ELSE \* KeyError, handled at line 189
                         LET r == cx_except("key_error")
                         IN  IF r.raised
                             THEN /\ trace' = trace \o <<Enter("get_coralogix_logs"),
                                                          Raise("coralogix", "key_error")>>
                                  /\ logs' = << >>
                                  /\ RaisedIntoGetRecentLogs
                             ELSE /\ trace' = trace \o <<Enter("get_coralogix_logs"),
                                                          Ret("coralogix", "key_error", r.logs)>>
                                  /\ logs' = r.logs
                                  /\ pc' = "L58"
                                  /\ UNCHANGED result
            ELSE /\ trace' = trace \o <<Enter("get_coralogix_logs"),
                                         Ret("coralogix", "not_attempted", << >>)>>
                 /\ logs' = << >>
                 /\ pc' = "L58"
                 /\ UNCHANGED <<crash_info, result>>
       ELSE /\ pc' = "L58"
            /\ UNCHANGED <<crash_info, trace, logs, result>>
    /\ UNCHANGED <<env, enriched, entry, log_destination, log_config,
                   log_stream, sn, cw, pf, stub>>

\* get_coralogix_logs lines 60-193, then get_recent_logs lines 48-56.
CoralogixResponse ==
    /\ pc = "cx_wait"
    /\ \E outcome \in HttpOutcomes, n \in 0..MaxHits :
         LET r == IF outcome = "ok"
                  THEN [raised |-> FALSE, logs |-> Entries("coralogix", n)]
                  ELSE cx_except(outcome)
         IN  /\ outcome # "ok" => n = 0
             /\ Stubbed("cx", [outcome |-> outcome, n |-> n])
             /\ IF r.raised
                THEN /\ trace' = Append(trace, Raise("coralogix", outcome))
                     /\ logs' = << >>
                     /\ UNCHANGED crash_info
                     /\ RaisedIntoGetRecentLogs
                ELSE /\ trace' = Append(trace, Ret("coralogix", outcome, r.logs))
                     /\ logs' = r.logs
                     /\ IF cx_logs_found(r.logs)
                        THEN /\ crash_info' = [crash_info EXCEPT !.log_source = "coralogix"]
                             /\ ReturnFromGetRecentLogs(r.logs)
                        ELSE /\ pc' = "L58"
                             /\ UNCHANGED <<crash_info, result>>
    /\ UNCHANGED <<env, enriched, entry, log_destination, log_config,
                   log_stream, sn, cw, pf>>


(***************************************************************************)
(* logs_utils.get_cloudwatch_logs, get_logs_with_config,                   *)
(* get_logs_from_stream; ecs_utils.get_log_configuration_from_task_def     *)
(***************************************************************************)
\* logs_utils.get_recent_logs line 58
cloudwatch_branch_only_default(d) == d = "cloudwatch"

cloudwatch_branch(d) == d = "cloudwatch" \/ d \in {"coralogix", "elasticsearch"}

\* get_cloudwatch_logs line 95
task_id_of(task_arn) == IF task_arn # << >> THEN LastSegment(task_arn) ELSE << >>

\* get_logs_with_config lines 149-153
StreamName_always_prefix(stream_prefix, container_name, task_id) ==
    stream_prefix \o <<SLASH>> \o container_name \o <<SLASH>> \o task_id

StreamName(stream_prefix, container_name, task_id) ==
    IF stream_prefix # << >>
    THEN stream_prefix \o <<SLASH>> \o container_name \o <<SLASH>> \o task_id
    ELSE container_name \o <<SLASH>> \o task_id

\* get_cloudwatch_logs lines 105-109
cw_tag(ci, l) == IF l # << >> THEN [ci EXCEPT !.log_source = "cloudwatch"] ELSE ci

\* get_recent_logs lines 61-62
grl_cw_tag(ci, l) ==
    IF l # << >> /\ ci.log_source \notin {"coralogix", "elasticsearch"}
    THEN [ci EXCEPT !.log_source = "cloudwatch"]
    ELSE ci

\* get_cloudwatch_logs returns l (history so far: tr); get_recent_logs lines 61-65.
CloudWatchReturn(tr, outcome, l) ==
    /\ trace' = Append(tr, Ret("cloudwatch", outcome, l))
    /\ logs' = l
    /\ crash_info' = grl_cw_tag(cw_tag(crash_info, l), l)
    /\ ReturnFromGetRecentLogs(l)

\* get_recent_logs lines 58-60, get_cloudwatch_logs lines 81-100 and
\* get_log_configuration_from_task_def lines 135-143.
TryCloudWatch ==
    /\ pc = "L58"
    /\ IF cloudwatch_branch(log_destination)
       THEN LET tr == Append(trace, Enter("get_cloudwatch_logs"))
                fc == crash_info.failed_container
            IN  IF fc.isNone \/ fc.name = << >> \/ crash_info.task_arn = << >>
                   \/ ~Truthy(crash_info.task_definition_arn)
                THEN CloudWatchReturn(tr, "not_attempted", << >>)
                ELSE /\ trace' = Append(tr, Call("describe_task_definition"))
                     /\ pc' = "cw_taskdef"
                     /\ UNCHANGED <<crash_info, logs, result>>
       ELSE \* lines 67-68
            /\ ReturnFromGetRecentLogs(<< >>)
            /\ UNCHANGED <<crash_info, logs, trace>>
    /\ UNCHANGED <<env, enriched, entry, log_destination, log_config,
                   log_stream, sn, cw, pf, stub>>

\* What describe_task_definition can say about the crashed container:
\* the call raised, no container definition of that name, another log driver,
\* or awslogs with its options (an empty options dict is falsy).
TaskDefAnswers ==
    {[kind |-> k, truthy |-> FALSE, group |-> << >>, prefix |-> << >>] :
        k \in {"error", "no_container", "other_driver", "awslogs"}}
    \cup {[kind |-> "awslogs", truthy |-> TRUE, group |-> g, prefix |-> p] :
            g \in {<< >>, LogGroup}, p \in {<< >>, StreamPrefix}}

\* get_log_configuration_from_task_def lines 145-177
log_configuration_of(a) ==
    IF a.kind = "awslogs"
    THEN [truthy |-> a.truthy, group |-> a.group, prefix |-> a.prefix]
    ELSE NoLogConfig

\* Variant of line 128 that falls back to a default group.
log_group_of_defaulted(cfg) == IF cfg.group = << >> THEN <<"d">> ELSE cfg.group

\* get_logs_with_config line 128: log_config.get('awslogs-group', '')
log_group_of(cfg) == cfg.group

\* get_cloudwatch_logs lines 100-115 and get_logs_with_config lines 126-165.
TaskDefResponse ==
    /\ pc = "cw_taskdef"
    /\ \E a \in TaskDefAnswers :
         LET cfg == log_configuration_of(a)
         IN  /\ Stubbed("taskdef", a)
             /\ log_config' = cfg
             /\ IF cfg.truthy /\ log_group_of(cfg) # << >>
                THEN /\ log_stream' = StreamName(cfg.prefix,
                                                 crash_info.failed_container.name,
                                                 task_id_of(crash_info.task_arn))
                     /\ cw' = [cw EXCEPT !.candidate = log_stream',
                                         !.group = log_group_of(cfg)]
                     /\ trace' = Append(trace, Call("describe_log_streams_prefix"))
                     /\ pc' = "cw_ds1"
                     /\ UNCHANGED <<crash_info, logs, result>>
                ELSE /\ CloudWatchReturn(trace, IF a.kind = "error" THEN "error" ELSE "no_config", << >>)
                     /\ UNCHANGED <<log_stream, cw>>
    /\ UNCHANGED <<env, enriched, entry, log_destination, sn, pf>>

\* Streams the prefix lookup (limit=1) can answer with: none, the candidate
\* itself, or a longer name that starts with it.
PrefixLookupAnswers(candidate) ==
    {<< >>, <<candidate>>, <<candidate \o <<"2">>>>}

\* line 166, `if not response.get('logStreams')`, negated
first_lookup_found(streams) == streams # << >>

\* get_logs_with_config lines 160-193, first lookup.
DescribePrefixResponse ==
    /\ pc = "cw_ds1"
    /\ \/ \* the lookup raised: lines 191-193
          /\ Stubbed("ds1", [raised |-> TRUE, streams |-> << >>])
          /\ CloudWatchReturn(trace, "lookup_error", << >>)
          /\ cw' = [cw EXCEPT !.lookup_raised = TRUE]
          /\ UNCHANGED log_stream
       \/ \E streams \in PrefixLookupAnswers(log_stream) :
            /\ Stubbed("ds1", [raised |-> FALSE, streams |-> streams])
            /\ cw' = [cw EXCEPT !.first_answered = TRUE, !.first = streams]
            /\ IF first_lookup_found(streams)
               THEN /\ log_stream' = streams[1]
                    /\ trace' = Append(trace, Call("filter_log_events"))
                    /\ pc' = "cw_events"
                    /\ UNCHANGED <<crash_info, logs, result>>
               ELSE /\ trace' = Append(trace, Call("describe_log_streams_recent"))
                    /\ pc' = "cw_ds2"
                    /\ UNCHANGED <<crash_info, logs, result, log_stream>>
    /\ UNCHANGED <<env, enriched, entry, log_destination, log_config, sn, pf>>

\* Names the broad lookup can list: two of this task, one of another task.
RecentStreamNames == {<<"x", "/">> \o TaskId, <<"y", "/">> \o TaskId, <<"z">>}

RecentLookupAnswers ==
    {<< >>} \cup {<<a>> : a \in RecentStreamNames}
            \cup {<<a, b>> : a \in RecentStreamNames, b \in RecentStreamNames}

\* Variant of line 177 that lists the matching names newest-last first.
matching_streams_last_first(streams, task_id) ==
    LET m == SelectSeq(streams, LAMBDA name : Contains(name, task_id))
    IN  [i \in 1..Len(m) |-> m[Len(m) + 1 - i]]

\* Variant of line 177 that keeps the names of the other tasks.
matching_streams_of_others(streams, task_id) ==
    SelectSeq(streams, LAMBDA name : ~Contains(name, task_id))

\* Variant of line 177 without the `task_id in name` filter.
matching_streams_unfiltered(streams, task_id) == streams

\* line 177: the names that contain the task id, in the order returned.
matching_streams(streams, task_id) ==
    SelectSeq(streams, LAMBDA name : Contains(name, task_id))

\* get_logs_with_config lines 170-193, second lookup.
DescribeRecentResponse ==
    /\ pc = "cw_ds2"
    /\ \/ \* the lookup raised: lines 191-193
          /\ Stubbed("ds2", [raised |-> TRUE, streams |-> << >>])
          /\ CloudWatchReturn(trace, "lookup_error", << >>)
          /\ cw' = [cw EXCEPT !.lookup_raised = TRUE]
          /\ UNCHANGED log_stream
       \/ \E streams \in RecentLookupAnswers :
            LET m == matching_streams(streams, task_id_of(crash_info.task_arn))
            IN  /\ Stubbed("ds2", [raised |-> FALSE, streams |-> streams])
                /\ cw' = [cw EXCEPT !.recent_answered = TRUE, !.recent = streams]
                /\ IF m # << >>
                   THEN /\ log_stream' = m[1]
                        /\ trace' = Append(trace, Call("filter_log_events"))
                        /\ pc' = "cw_events"
                        /\ UNCHANGED <<crash_info, logs, result>>
                   ELSE /\ CloudWatchReturn(trace, "no_stream", << >>)
                        /\ UNCHANGED log_stream
    /\ UNCHANGED <<env, enriched, entry, log_destination, log_config, sn, pf>>

\* get_logs_from_stream lines 206-239, get_cloudwatch_logs lines 105-112.
FilterEventsResponse ==
    /\ pc = "cw_events"
    /\ \/ \* filter_log_events raised: lines 235-239
          /\ Stubbed("events", [raised |-> TRUE, n |-> 0])
          /\ CloudWatchReturn(trace, "error", << >>)
       \/ \E n \in 0..MaxHits :
            /\ Stubbed("events", [raised |-> FALSE, n |-> n])
            /\ CloudWatchReturn(trace, "ok", Entries("cloudwatch", n))
    /\ UNCHANGED <<env, enriched, entry, log_destination, log_config,
                   log_stream, sn, cw, pf>>

(***************************************************************************)
(* ecs_utils.enrich_crash_data, lines 89-108                               *)
(***************************************************************************)
\* lines 91-92
preserve_log_source_dropped(en, ci) == en

preserve_log_source(en, ci) ==
    IF ci.log_source # NOT_SET THEN [en EXCEPT !.log_source = ci.log_source] ELSE en

EnrichLogs ==
    /\ pc = "enrich_logs"
    /\ enriched' = preserve_log_source(
                       [enriched EXCEPT !.has_recent_logs = TRUE,
                                        !.recent_logs = result],
                       crash_info)
    /\ pc' = "enrich_details"
    /\ UNCHANGED <<env, crash_info, entry, log_destination, logs, log_config,
                   log_stream, result, trace, sn, cw, pf, stub>>

\* lines 99-101, get_task_definition_details up to its call
EnrichDetails ==
    /\ pc = "enrich_details"
    /\ IF Truthy(crash_info.task_definition_arn)
       THEN /\ trace' = Append(trace, Call("describe_task_definition_details"))
            /\ pc' = "details_wait"
       ELSE /\ pc' = "done"
            /\ UNCHANGED trace
    /\ UNCHANGED <<env, crash_info, enriched, entry, log_destination, logs,
                   log_config, log_stream, result, sn, cw, pf, stub>>

\* get_task_definition_details lines 118-129, enrich_crash_data line 102
DetailsResponse ==
    /\ pc = "details_wait"
    /\ \E ok \in BOOLEAN : enriched' = [enriched EXCEPT !.has_details = ok]
    /\ pc' = "done"
    /\ UNCHANGED <<env, crash_info, entry, log_destination, logs, log_config,
                   log_stream, result, trace, sn, cw, pf, stub>>

(***************************************************************************)
(* The pipeline                                                            *)
(***************************************************************************)
Init ==
    /\ env \in EnvValues
    /\ crash_info \in CrashInfoValues
    /\ entry \in {"enrich_crash_data", "get_recent_logs"}
    /\ pc = IF entry = "enrich_crash_data" THEN "enrich" ELSE "grl"
    /\ enriched = NoEnriched
    /\ log_destination = ""
    /\ logs = << >>
    /\ log_config = NoLogConfig
    /\ log_stream = << >>
    /\ result = << >>
    /\ trace = << >>
    /\ sn = NoSn
    /\ cw = NoCw
    /\ pf = NoPf
    /\ stub = NoStub

Next ==
    \/ EnrichCrashData
    \/ GetRecentLogs
    \/ TryElasticsearch
    \/ ElasticsearchResponse
    \/ TryCoralogix
    \/ CoralogixResponse
    \/ TryCloudWatch
    \/ TaskDefResponse
    \/ DescribePrefixResponse
    \/ DescribeRecentResponse
    \/ FilterEventsResponse
    \/ EnrichLogs
    \/ EnrichDetails
    \/ DetailsResponse

Spec == Init /\ [][Next]_vars

(***************************************************************************)
(* Two resolutions on the same crash context, against backends that answer *)
(* the second as they answered the first.                                  *)
(***************************************************************************)
\* get_recent_logs is called again on the context the first call left; its
\* locals start afresh.
RunAgain ==
    /\ pc = "done"
    /\ stub.run = 1
    /\ stub' = [stub EXCEPT !.run = 2, !.first = result,
                            !.first_destination = log_destination]
    /\ pc' = "grl"
    /\ log_destination' = ""
    /\ logs' = << >>
    /\ log_config' = NoLogConfig
    /\ log_stream' = << >>
    /\ result' = << >>
    /\ cw' = NoCw
    /\ UNCHANGED <<env, crash_info, enriched, entry, trace, sn, pf>>

InitTwice ==
    /\ Init
    /\ entry = "get_recent_logs"

NextTwice ==
    \/ GetRecentLogs
    \/ TryElasticsearch
    \/ ElasticsearchResponse
    \/ TryCoralogix
    \/ CoralogixResponse
    \/ TryCloudWatch
    \/ TaskDefResponse
    \/ DescribePrefixResponse
    \/ DescribeRecentResponse
    \/ FilterEventsResponse
    \/ RunAgain

SpecTwice == InitTwice /\ [][NextTwice]_vars


(***************************************************************************)
(* Stream-name construction on its own: get_cloudwatch_logs lines 87-95    *)
(* and get_logs_with_config lines 142-153, for every small prefix,         *)
(* container name and task ARN.                                            *)
(***************************************************************************)
Alphabet == {"a", SLASH}

Strings(n) == UNION {[1..k -> Alphabet] : k \in 0..n}

BuildStreamName ==
    /\ pc = "stream"
    /\ ~sn.done
    /\ sn' = IF sn.container = << >> \/ sn.task_arn = << >>
             THEN [sn EXCEPT !.done = TRUE]
             ELSE [sn EXCEPT !.done = TRUE, !.built = TRUE,
                             !.stream = StreamName(sn.prefix, sn.container,
                                                   task_id_of(sn.task_arn))]
    /\ UNCHANGED <<env, crash_info, enriched, entry, pc, log_destination, logs,
                   log_config, log_stream, result, trace, cw, pf, stub>>

InitStream ==
    /\ env = [ENABLE_ELASTICSEARCH_INTEGRATION |-> UNSET,
              ELASTICSEARCH_ENDPOINT |-> "",
              ELASTICSEARCH_USERNAME |-> "",
              ELASTICSEARCH_PASSWORD |-> "",
              ENABLE_CORALOGIX_INTEGRATION |-> UNSET,
              CORALOGIX_API_KEY |-> "",
              CORALOGIX_REGION |-> ""]
    /\ crash_info = [failed_container |-> [isNone |-> TRUE, name |-> << >>],
                     task_arn |-> << >>,
                     task_definition_arn |-> "",
                     has_service_name |-> TRUE,
                     log_source |-> NOT_SET,
                     has_recent_logs |-> FALSE,
                     recent_logs |-> << >>,
                     logs_count |-> 0]
    /\ entry = "get_logs_with_config"
    /\ pc = "stream"
    /\ enriched = NoEnriched
    /\ log_destination = ""
    /\ logs = << >>
    /\ log_config = NoLogConfig
    /\ log_stream = << >>
    /\ result = << >>
    /\ trace = << >>
    /\ cw = NoCw
    /\ pf = NoPf
    /\ stub = NoStub
    /\ \E p \in Strings(MaxStrLen), c \in Strings(MaxStrLen), t \in Strings(MaxStrLen) :
         sn = [NoSn EXCEPT !.prefix = p, !.container = c, !.task_arn = t]

NextStream == BuildStreamName

SpecStream == InitStream /\ [][NextStream]_vars

(***************************************************************************)
(* Functions run on their own.  The resolution above abstracts what the    *)
(* backends answer; the specifications below run one function of the       *)
(* adapters on every small answer, with the other variables at rest.       *)
(***************************************************************************)
cascade_vars == <<env, crash_info, enriched, entry, pc, log_destination, logs,
                  log_config, log_stream, result, trace, sn, cw, stub>>

\* Nothing of the resolution is running; the function named fn is at line p.
AtRest(fn, p) ==
    /\ env = [ENABLE_ELASTICSEARCH_INTEGRATION |-> UNSET,
              ELASTICSEARCH_ENDPOINT |-> "",
              ELASTICSEARCH_USERNAME |-> "",
              ELASTICSEARCH_PASSWORD |-> "",
              ENABLE_CORALOGIX_INTEGRATION |-> UNSET,
              CORALOGIX_API_KEY |-> "",
              CORALOGIX_REGION |-> ""]
    /\ crash_info = [failed_container |-> [isNone |-> TRUE, name |-> << >>],
                     task_arn |-> << >>,
                     task_definition_arn |-> "",
                     has_service_name |-> TRUE,
                     log_source |-> NOT_SET,
                     has_recent_logs |-> FALSE,
                     recent_logs |-> << >>,
                     logs_count |-> 0]
    /\ entry = fn
    /\ pc = p
    /\ enriched = NoEnriched
    /\ log_destination = ""
    /\ logs = << >>
    /\ log_config = NoLogConfig
    /\ log_stream = << >>
    /\ result = << >>
    /\ trace = << >>
    /\ sn = NoSn
    /\ cw = NoCw
    /\ stub = NoStub

\* All sequences over S of length at most n.
SeqsUpTo(S, n) == UNION {[1..k -> S] : k \in 0..n}

(***************************************************************************)
(* get_log_configuration_from_task_def (ecs_utils 132-177) on its own.     *)
(***************************************************************************)
MaxDefs == 2

\* A container definition: its name, its logConfiguration.logDriver (UNSET
\* when the definition has no logConfiguration or no driver) and its
\* logConfiguration.options ("" is the empty dict).
ContainerDefs ==
    [name : {ContainerName, ContainerName \o <<"2">>},
     logDriver : {"awslogs", "fluentd", UNSET},
     options : {"", "A", "B"}]

\* What describe_task_definition answers: it raises, or a task definition.
TaskDefResponses ==
    {[raised |-> TRUE, containerDefinitions |-> << >>]}
    \cup {[raised |-> FALSE, containerDefinitions |-> d] :
            d \in SeqsUpTo(ContainerDefs, MaxDefs)}

NoOptions == [isNone |-> TRUE, options |-> "", raised |-> FALSE]

\* Variant of line 158 that accepts a name the container's name is part of.
name_matches_substring(def_name, container_name) ==
    Contains(def_name, container_name)

\* line 158: container_def.get('name') == container_name
name_matches(def_name, container_name) == def_name = container_name

\* lines 157-171: the first definition of that name decides.
RECURSIVE find_log_configuration(_, _)
find_log_configuration(defs, container_name) ==
    IF defs = << >>
    THEN NoOptions
    ELSE IF name_matches(Head(defs).name, container_name)
         THEN IF Head(defs).logDriver = "awslogs"
              THEN [isNone |-> FALSE, options |-> Head(defs).options,
                    raised |-> FALSE]
              ELSE NoOptions
         ELSE find_log_configuration(Tail(defs), container_name)

\* lines 134-177; the except clause of lines 173-177 turns a raise into None.
get_log_configuration_from_task_def(task_def_arn, container_name, response) ==
    IF ~Truthy(task_def_arn)
    THEN NoOptions
    ELSE IF response.raised
         THEN NoOptions
         ELSE IF container_name = << >>
              THEN NoOptions
              ELSE find_log_configuration(response.containerDefinitions,
                                          container_name)

GetLogConfiguration ==
    /\ pc = "taskdef"
    /\ ~pf.done
    /\ pf' = [pf EXCEPT !.done = TRUE,
                        !.out = get_log_configuration_from_task_def(
                                    pf.task_definition_arn, pf.container_name,
                                    pf.response)]
    /\ UNCHANGED cascade_vars

InitTaskDef ==
    /\ AtRest("get_log_configuration_from_task_def", "taskdef")
    /\ \E a \in CredValues, c \in {<< >>, ContainerName}, r \in TaskDefResponses :
         pf = [fn |-> "get_log_configuration_from_task_def",
               task_definition_arn |-> a, container_name |-> c,
               response |-> r, done |-> FALSE, out |-> NoOptions]

NextTaskDef == GetLogConfiguration

SpecTaskDef == InitTaskDef /\ [][NextTaskDef]_vars

(***************************************************************************)
(* Message extraction of one DataPrime record (coralogix_utils 103-147)    *)
(* on its own.                                                             *)
(***************************************************************************)
\* Python's None, as the value of a key or the result of dict.get.
NONE == "<None>"

\* The value of a `message` or `log` key: no such key, null, '' or a text.
MessageFieldValues == {UNSET, NONE, "", "boom"}
LogFieldValues == {UNSET, NONE, "", "oops"}

\* A JSON object as far as the extraction looks at it: its `message` and
\* `log` keys and whether it has any other key.
JsonObjects == [message : MessageFieldValues, log : LogFieldValues, other : BOOLEAN]
EmptyObject == [message |-> UNSET, log |-> UNSET, other |-> FALSE]

\* The `data` field of a record: no such key, null, a non-empty string, or
\* an object.
DataValues ==
    {[kind |-> k, obj |-> EmptyObject] : k \in {"absent", "null", "str"}}
    \cup {[kind |-> "dict", obj |-> o] : o \in JsonObjects}

\* The `userData` field of a record: no such key, null, or a string that is
\* empty, is not JSON, is a JSON array, or is a JSON object.
UserDataValues ==
    {[kind |-> k, obj |-> EmptyObject] :
        k \in {"absent", "null", "empty", "invalid", "array"}}
    \cup {[kind |-> "object", obj |-> o] : o \in JsonObjects}

\* dict.get(key): None when the key is missing.
dict_get(v) == IF v = UNSET THEN NONE ELSE v

\* Python truth value of log.get('data', {}), line 111.
data_truthy(data) ==
    CASE data.kind = "absent" -> FALSE
      [] data.kind = "null" -> FALSE
      [] data.kind = "str" -> TRUE
      [] data.kind = "dict" -> data.obj # EmptyObject

\* Variant of lines 115/117 that only tests `is not None`.
non_empty_not_none(v) == v # NONE

\* lines 115, 117, 132, 135: `v is not None and v != ''`
non_empty(v) == v # NONE /\ v # ""

\* The extracted message: str() of a field's text, or str() of a whole value.
Text(v) == [raised |-> FALSE, kind |-> "text", val |-> v]
StrOf(what) == [raised |-> FALSE, kind |-> what, val |-> ""]
Raises(exc) == [raised |-> TRUE, kind |-> exc, val |-> ""]

\* lines 112-124 and 129-141: message, then log, then the whole value.
message_of(obj, whole) ==
    IF non_empty(dict_get(obj.message))
    THEN Text(obj.message)
    ELSE IF non_empty(dict_get(obj.log))
         THEN Text(obj.log)
         ELSE StrOf(whole)

\* json.loads(user_data), line 128, with the default '{}' of line 103.
json_loads(user_data) ==
    CASE user_data.kind = "absent" -> [exc |-> "", isDict |-> TRUE, obj |-> EmptyObject]
      [] user_data.kind = "null" -> [exc |-> "TypeError", isDict |-> FALSE, obj |-> EmptyObject]
      [] user_data.kind \in {"empty", "invalid"} ->
             [exc |-> "JSONDecodeError", isDict |-> FALSE, obj |-> EmptyObject]
      [] user_data.kind = "array" -> [exc |-> "", isDict |-> FALSE, obj |-> EmptyObject]
      [] user_data.kind = "object" -> [exc |-> "", isDict |-> TRUE, obj |-> user_data.obj]

\* Python truth value of user_data, line 147.
user_data_truthy(user_data) == user_data.kind \in {"absent", "invalid", "array", "object"}

\* lines 103-147.  A `.get` on a value that is not a dict raises
\* AttributeError, which lines 142-147 do not catch.
extract_message(data, user_data) ==
    IF data_truthy(data)
    THEN IF data.kind = "dict"
         THEN message_of(data.obj, "str(data)")
         ELSE Raises("AttributeError")
    ELSE LET parsed == json_loads(user_data)
         IN  IF parsed.exc # ""
             THEN IF user_data_truthy(user_data)
                  THEN StrOf("str(userData)")
                  ELSE StrOf("str(record)")
             ELSE IF parsed.isDict
                  THEN message_of(parsed.obj, "str(parsed userData)")
                  ELSE Raises("AttributeError")

ExtractMessage ==
    /\ pc = "message"
    /\ ~pf.done
    /\ pf' = [pf EXCEPT !.done = TRUE,
                        !.message = extract_message(pf.data, pf.userData)]
    /\ UNCHANGED cascade_vars

InitMessage ==
    /\ AtRest("get_coralogix_logs", "message")
    /\ \E d \in DataValues, u \in UserDataValues :
         pf = [fn |-> "extract_message", data |-> d, userData |-> u,
               done |-> FALSE, message |-> Text("No message")]

NextMessage == ExtractMessage

SpecMessage == InitMessage /\ [][NextMessage]_vars

(***************************************************************************)
(* Reading the DataPrime response body (coralogix_utils 62-90) on its own. *)
(***************************************************************************)
MaxLines == 3
MaxRecs == 2

\* Raw records, told apart by an identity.
RecordIds == {"r1", "r2"}

\* A line of the body after the split on newlines: whitespace only; not
\* JSON; JSON that is not an object (a number, null); an object without a
\* `result` key; an object whose `result` is null; an object whose `result`
\* is an object without `results`; an object with result.results, a list.
LineValues ==
    {[kind |-> k, results |-> << >>] :
        k \in {"blank", "invalid", "scalar", "no_result", "result_null",
               "result_without_results"}}
    \cup {[kind |-> "results", results |-> r] : r \in SeqsUpTo(RecordIds, MaxRecs)}

\* line 66: the lines that are not blank, in order.
response_lines(body) == SelectSeq(body, LAMBDA l : l.kind # "blank")

\* lines 70-87: the loop over the lines.  Only JSONDecodeError is caught per
\* line (line 85); line_data.keys() on a value that is not an object (line
\* 73) and `'results' in None` (line 76) raise past the loop.
RECURSIVE collect_logs(_, _)
collect_logs(lines, acc) ==
    IF lines = << >>
    THEN [raised |-> FALSE, logs |-> acc]
    ELSE LET l == Head(lines)
         IN  CASE l.kind = "invalid" -> collect_logs(Tail(lines), acc)
               [] l.kind = "scalar" -> [raised |-> TRUE, logs |-> << >>]
               [] l.kind = "result_null" -> [raised |-> TRUE, logs |-> << >>]
               [] l.kind \in {"no_result", "result_without_results"} ->
                      collect_logs(Tail(lines), acc)
               [] l.kind = "results" ->
                      collect_logs(Tail(lines), acc \o l.results)

\* lines 66-90, and lines 186-193 for what was raised: the adapter then
\* returns [] whatever it had collected.
ReadResponseBody ==
    /\ pc = "body"
    /\ ~pf.done
    /\ pf' = [pf EXCEPT !.done = TRUE,
                        !.out = collect_logs(response_lines(pf.body), << >>)]
    /\ UNCHANGED cascade_vars

InitBody ==
    /\ AtRest("get_coralogix_logs", "body")
    /\ \E b \in SeqsUpTo(LineValues, MaxLines) :
         pf = [fn |-> "collect_logs", body |-> b, done |-> FALSE,
               out |-> [raised |-> FALSE, logs |-> << >>]]

NextBody == ReadResponseBody

SpecBody == InitBody /\ [][NextBody]_vars

(***************************************************************************)
(* The timestamp of one DataPrime record (coralogix_utils 149-178) on its  *)
(* own.                                                                    *)
(***************************************************************************)
MaxMeta == 2
MaxTick == 1

\* The clock, in epoch milliseconds, when get_coralogix_logs is called.
Reference == 3000

\* ISO-8601 texts, by the second and the microsecond they name.
IsoTexts == [sec : {1, 2}, micros : {0, 999999}]

\* The `value` of a metadata pair: an ISO-8601 text, a text that
\* fromisoformat rejects, '', null (or no `value` key), or a number.
MetaValues ==
    {[kind |-> "iso", iso |-> t] : t \in IsoTexts}
    \cup {[kind |-> k, iso |-> [sec |-> 0, micros |-> 0]] :
            k \in {"invalid", "empty", "null", "number"}}

NoMetaValue == [kind |-> "null", iso |-> [sec |-> 0, micros |-> 0]]

MetaPairs ==
    {[key |-> "timestamp", value |-> v] : v \in MetaValues}
    \cup {[key |-> "severity", value |-> [kind |-> "invalid",
                                          iso |-> [sec |-> 0, micros |-> 0]]]}

\* Variant of lines 151-154 without the break: the last such pair wins.
RECURSIVE timestamp_str_of_last(_)
timestamp_str_of_last(metadata) ==
    IF metadata = << >>
    THEN NoMetaValue
    ELSE IF metadata[Len(metadata)].key = "timestamp"
         THEN metadata[Len(metadata)].value
         ELSE timestamp_str_of_last(SubSeq(metadata, 1, Len(metadata) - 1))

\* lines 150-154: the value of the first pair whose key is 'timestamp'.
RECURSIVE timestamp_str_of(_)
timestamp_str_of(metadata) ==
    IF metadata = << >>
    THEN NoMetaValue
    ELSE IF Head(metadata).key = "timestamp"
         THEN Head(metadata).value
         ELSE timestamp_str_of(Tail(metadata))

\* lines 162-163: int(datetime.fromisoformat(text).timestamp() * 1000)
iso_to_ms(t) == t.sec * 1000 + (t.micros \div 1000)

\* lines 157-173.  A number is truthy and has no .replace: the except of
\* line 165 catches it like a text that does not parse.
timestamp_ms_of(timestamp_str, now) ==
    IF timestamp_str.kind \in {"empty", "null"}
    THEN now
    ELSE IF timestamp_str.kind = "iso"
         THEN iso_to_ms(timestamp_str.iso)
         ELSE now

\* lines 149-178 for one record; the clock has not gone back since the call.
ExtractTimestamp ==
    /\ pc = "timestamp"
    /\ ~pf.done
    /\ \E now \in Reference..(Reference + MaxTick) :
         pf' = [pf EXCEPT !.done = TRUE,
                          !.now = now,
                          !.log_entries =
                              <<[timestamp |-> timestamp_ms_of(
                                                   timestamp_str_of(pf.metadata), now),
                                 message |-> "m"]>>]
    /\ UNCHANGED cascade_vars

InitTimestamp ==
    /\ AtRest("get_coralogix_logs", "timestamp")
    /\ \E m \in SeqsUpTo(MetaPairs, MaxMeta) :
         pf = [fn |-> "timestamp_ms", metadata |-> m, done |-> FALSE,
               now |-> Reference, log_entries |-> << >>]

NextTimestamp == ExtractTimestamp

SpecTimestamp == InitTimestamp /\ [][NextTimestamp]_vars

(***************************************************************************)
(* The conversion of the collected DataPrime records into entries and the  *)
(* final sort (coralogix_utils 97-184) on its own.  The message of a       *)
(* record is taken as extracted; its timestamp is computed as above.       *)
(***************************************************************************)
\* The metadata of the records converted here: no pair, or one pair.
ConvertMetadata == {<< >>} \cup {<<p>> : p \in MetaPairs}

ConvertRecords == [message : {"a", "b"}, metadata : ConvertMetadata]

\* Variant of line 183 that leaves the entries in the order built.
sort_newest_first_skipped(entries) == entries

\* list.sort(key=timestamp, reverse=True) is stable: e goes behind the
\* entries already placed whose timestamp is not smaller.
insert_entry(e, placed) ==
    LET k == Cardinality({j \in DOMAIN placed : placed[j].timestamp >= e.timestamp})
    IN  SubSeq(placed, 1, k) \o <<e>> \o SubSeq(placed, k + 1, Len(placed))

RECURSIVE sort_entries(_)
sort_entries(entries) ==
    IF entries = << >>
    THEN << >>
    ELSE insert_entry(entries[Len(entries)],
                      sort_entries(SubSeq(entries, 1, Len(entries) - 1)))

\* line 183: log_entries.sort(key=lambda x: x['timestamp'], reverse=True)
sort_newest_first(entries) == sort_entries(entries)

\* lines 98-178: one turn of the loop over the collected records.
ConvertRecord ==
    /\ pc = "convert"
    /\ pf.i <= Len(pf.logs)
    /\ \E now \in pf.now..(pf.now + MaxTick) :
         pf' = [pf EXCEPT !.i = @ + 1,
                          !.now = now,
                          !.log_entries =
                              Append(@, [timestamp |-> timestamp_ms_of(
                                             timestamp_str_of(pf.logs[pf.i].metadata), now),
                                         message |-> pf.logs[pf.i].message])]
    /\ UNCHANGED cascade_vars

\* lines 180-184: the sort and the return.
SortAndReturn ==
    /\ pc = "convert"
    /\ pf.i > Len(pf.logs)
    /\ ~pf.done
    /\ pf' = [pf EXCEPT !.done = TRUE, !.out = sort_newest_first(pf.log_entries)]
    /\ UNCHANGED cascade_vars

\* The loop starts with at least one record: lines 88-90 return before it
\* when nothing was collected.
InitConvert ==
    /\ AtRest("get_coralogix_logs", "convert")
    /\ \E l \in SeqsUpTo(ConvertRecords, MaxRecs) :
         /\ l # << >>
         /\ pf = [fn |-> "convert", logs |-> l, i |-> 1, now |-> Reference,
                  log_entries |-> << >>, done |-> FALSE, out |-> << >>]

NextConvert == ConvertRecord \/ SortAndReturn

SpecConvert == InitConvert /\ [][NextConvert]_vars

(***************************************************************************)
(* The entries built from the Elasticsearch hits (elasticsearch_utils      *)
(* 72-105) on their own.                                                   *)
(***************************************************************************)
\* The _source of a hit, as far as the entry's timestamp and message go:
\* '@timestamp' is an ISO-8601 text or missing, 'message' a text or missing.
HitSources ==
    [has_timestamp : BOOLEAN, iso : IsoTexts, message : {UNSET, "boom"}]

\* A timestamp that is a string: '' or the ISO-8601 text of the hit.
StrTimestamp(source) ==
    [type |-> "str", ms |-> 0,
     text |-> IF source.has_timestamp THEN "iso" ELSE "",
     iso |-> source.iso]

\* lines 78-93: the timestamp is source.get('@timestamp', ''), as received.
es_log_entry(source) ==
    [timestamp |-> StrTimestamp(source),
     message |-> IF source.message = UNSET THEN "" ELSE source.message]

\* lines 72-105
BuildEsEntries ==
    /\ pc = "hits"
    /\ ~pf.done
    /\ pf' = [pf EXCEPT !.done = TRUE,
                        !.log_entries = [i \in DOMAIN pf.hits |-> es_log_entry(pf.hits[i])]]
    /\ UNCHANGED cascade_vars

InitEsHits ==
    /\ AtRest("get_elasticsearch_logs", "hits")
    /\ \E h \in SeqsUpTo(HitSources, MaxHits) :
         pf = [fn |-> "es_log_entries", hits |-> h, done |-> FALSE,
               log_entries |-> << >>]

NextEsHits == BuildEsEntries

SpecEsHits == InitEsHits /\ [][NextEsHits]_vars

(***************************************************************************)
(* The entries built from the CloudWatch events (logs_utils                *)
(* get_logs_from_stream, 204-239) on their own.                            *)
(***************************************************************************)
MaxEvents == 2
MaxMsgLen == 3

Whitespace == {" "}

\* Messages: the texts over a blank and a letter, as sequences of characters.
EventMessages == SeqsUpTo(Whitespace \cup {"a"}, MaxMsgLen)

\* An event of filter_log_events: its timestamp (epoch ms) and its message.
LogEvents == [timestamp : {1, 2}, message : EventMessages]

RECURSIVE lstrip(_)
lstrip(m) ==
    IF m # << >> /\ Head(m) \in Whitespace THEN lstrip(Tail(m)) ELSE m

RECURSIVE rstrip(_)
rstrip(m) ==
    IF m # << >> /\ m[Len(m)] \in Whitespace
    THEN rstrip(SubSeq(m, 1, Len(m) - 1))
    ELSE m

\* Variant of line 228 that trims the left side only.
strip_left_only(m) == lstrip(m)

\* str.strip(), line 228
strip(m) == rstrip(lstrip(m))

\* lines 225-231
cw_log_entry(event) ==
    [timestamp |-> event.timestamp, message |-> strip(event.message)]

\* lines 216-232
get_logs_from_stream(events) ==
    IF events = << >>
    THEN << >>
    ELSE [i \in DOMAIN events |-> cw_log_entry(events[i])]

BuildCloudWatchEntries ==
    /\ pc = "events"
    /\ ~pf.done
    /\ pf' = [pf EXCEPT !.done = TRUE, !.log_entries = get_logs_from_stream(pf.events)]
    /\ UNCHANGED cascade_vars

InitEvents ==
    /\ AtRest("get_logs_from_stream", "events")
    /\ \E e \in SeqsUpTo(LogEvents, MaxEvents) :
         pf = [fn |-> "get_logs_from_stream", events |-> e, done |-> FALSE,
               log_entries |-> << >>]

NextEvents == BuildCloudWatchEntries

SpecEvents == InitEvents /\ [][NextEvents]_vars

(***************************************************************************)
(* ecs_utils.extract_crash_info, lines 25-44 and 64-66, on its own, with   *)
(* the launch-failure test of slack_notifier._format_crash_reason.         *)
(***************************************************************************)
MaxContainers == 3

\* A container of the event: its name and its exitCode, if it has one.
EventContainers ==
    {[name |-> n, hasExitCode |-> FALSE, exitCode |-> 0] : n \in {"a", "b"}}
    \cup {[name |-> n, hasExitCode |-> TRUE, exitCode |-> c] :
            n \in {"a", "b"}, c \in {0, 1, 137}}

NoContainer == [name |-> "", hasExitCode |-> FALSE, exitCode |-> 0]

\* Variant of line 32 that takes any container that has an exit code.
exit_code_nonzero_or_zero(container) == container.hasExitCode

\* line 32: container.get('exitCode', 0) != 0
exit_code_nonzero(container) ==
    (IF container.hasExitCode THEN container.exitCode ELSE 0) # 0

\* lines 31-36: the loop, with its break.
RECURSIVE first_failed(_)
first_failed(containers) ==
    IF containers = << >>
    THEN [isNone |-> TRUE, container |-> NoContainer,
          exit_code |-> [isNone |-> TRUE, val |-> 0]]
    ELSE IF exit_code_nonzero(Head(containers))
         THEN [isNone |-> FALSE, container |-> Head(containers),
               exit_code |-> [isNone |-> FALSE, val |-> Head(containers).exitCode]]
         ELSE first_failed(Tail(containers))

\* lines 26-44: failed_container and exit_code of the crash context.
extract_crash_info(containers) ==
    LET f == first_failed(containers)
    IN  IF f.isNone /\ containers # << >>
        THEN [f EXCEPT !.isNone = FALSE, !.container = containers[1]]
        ELSE f

\* slack_notifier line 174: `if exit_code is None` reports a launch failure.
is_launch_failure(ci) == ci.exit_code.isNone

ExtractCrashInfo ==
    /\ pc = "extract"
    /\ ~pf.done
    /\ pf' = [pf EXCEPT !.done = TRUE, !.out = extract_crash_info(pf.containers)]
    /\ UNCHANGED cascade_vars

InitExtract ==
    /\ AtRest("extract_crash_info", "extract")
    /\ \E c \in SeqsUpTo(EventContainers, MaxContainers) :
         pf = [fn |-> "extract_crash_info", containers |-> c, done |-> FALSE,
               out |-> first_failed(<< >>)]

NextExtract == ExtractCrashInfo

SpecExtract == InitExtract /\ [][NextExtract]_vars

(***************************************************************************)
(* The two tests of "Coralogix enabled and configured" and the UI link     *)
(* (elasticsearch_utils 162-188, coralogix_utils 196-241) on their own.    *)
(***************************************************************************)
\* The environment with the variable the link needs besides.
LinkEnvValues ==
    [ENABLE_ELASTICSEARCH_INTEGRATION : FlagValues,
     ELASTICSEARCH_ENDPOINT : CredValues,
     ELASTICSEARCH_USERNAME : CredValues,
     ELASTICSEARCH_PASSWORD : CredValues,
     ENABLE_CORALOGIX_INTEGRATION : FlagValues,
     CORALOGIX_API_KEY : CredValues,
     CORALOGIX_REGION : CredValues,
     CORALOGIX_ACCOUNT : CredValues]

\* coralogix_utils lines 232-241
is_coralogix_enabled(e) ==
    /\ Lower(EnvGet(e.ENABLE_CORALOGIX_INTEGRATION, "")) = "true"
    /\ Truthy(e.CORALOGIX_API_KEY)
    /\ Truthy(e.CORALOGIX_REGION)
    /\ Truthy(e.CORALOGIX_ACCOUNT)

\* coralogix_utils lines 200-233: None without account, region or task ARN.
generate_coralogix_ui_link(e, task_arn) ==
    IF ~Truthy(e.CORALOGIX_ACCOUNT) \/ ~Truthy(e.CORALOGIX_REGION)
    THEN [isNone |-> TRUE, account |-> "", region |-> ""]
    ELSE IF task_arn = << >>
         THEN [isNone |-> TRUE, account |-> "", region |-> ""]
         ELSE [isNone |-> FALSE, account |-> e.CORALOGIX_ACCOUNT,
               region |-> e.CORALOGIX_REGION]

EvaluateEnabled ==
    /\ pc = "enabled"
    /\ ~pf.done
    /\ pf' = [pf EXCEPT !.done = TRUE,
                        !.destination = detect_log_destination(pf.env),
                        !.enabled = is_coralogix_enabled(pf.env),
                        !.link = generate_coralogix_ui_link(pf.env, pf.task_arn)]
    /\ UNCHANGED cascade_vars

InitEnabled ==
    /\ AtRest("detect_log_destination", "enabled")
    /\ \E e \in LinkEnvValues :
         pf = [fn |-> "is_coralogix_enabled", env |-> e, task_arn |-> TaskArn,
               done |-> FALSE, destination |-> "", enabled |-> FALSE,
               link |-> [isNone |-> TRUE, account |-> "", region |-> ""]]

NextEnabled == EvaluateEnabled

SpecEnabled == InitEnabled /\ [][NextEnabled]_vars

(***************************************************************************)
(* slack_notifier.SlackNotifier.send_crash_notification (55-75) with       *)
(* _send_message_with_file (194-274) and _send_message (19-53).            *)
(***************************************************************************)
\* The variables the notification leaves alone.
notify_frame == <<env, crash_info, enriched, entry, log_destination, logs,
                  log_config, log_stream, result, sn, cw, stub>>

\* What files.getUploadURLExternal can answer: the request raises, an HTTP
\* error status, a body that is not JSON, or a JSON object with its `ok`,
\* `upload_url` and `file_id` ("" when missing or empty).
UploadUrlAnswers ==
    {[kind |-> k, ok |-> FALSE, upload_url |-> "", file_id |-> ""] :
        k \in {"raise", "http_error", "malformed"}}
    \cup {[kind |-> "json", ok |-> o, upload_url |-> u, file_id |-> f] :
            o \in BOOLEAN, u \in {"", "u", "u2"}, f \in {"", "f", "f2"}}

NoUploadUrlAnswer == [kind |-> "none", ok |-> FALSE, upload_url |-> "", file_id |-> ""]

\* What the upload POST can do (its body is not read).
UploadAnswers == {"raise", "http_error", "ok"}

\* What files.completeUploadExternal and chat.postMessage can answer.
SlackAnswers == {"raise", "http_error", "malformed", "not_ok", "ok"}

\* Variant of line 233 that does not ask for the file id.
upload_url_usable_without_id(a) == Truthy(a.upload_url)

\* line 233: `not upload_url or not file_id`, negated
upload_url_usable(a) == Truthy(a.upload_url) /\ Truthy(a.file_id)

\* lines 272-274 and 50-52: the handler prints and returns False.
notify_except == [set |-> TRUE, value |-> FALSE, raised |-> FALSE]

Returns(v) == [set |-> TRUE, value |-> v, raised |-> FALSE]
NotReturned == [set |-> FALSE, value |-> FALSE, raised |-> FALSE]

\* lines 58-69 and 196-221: the guards, then the first request.
SendCrashNotification ==
    /\ pc = "notify"
    /\ IF ~Truthy(pf.bot_token) \/ ~Truthy(pf.channel)
       THEN /\ pf' = [pf EXCEPT !.returned = Returns(FALSE)]
            /\ pc' = "notified"
            /\ UNCHANGED trace
       ELSE IF pf.recent_logs > 0
            THEN /\ trace' = Append(trace, Call("files.getUploadURLExternal"))
                 /\ pc' = "upload_url"
                 /\ UNCHANGED pf
            ELSE /\ trace' = Append(trace, Call("chat.postMessage"))
                 /\ pc' = "post"
                 /\ UNCHANGED pf
    /\ UNCHANGED notify_frame

\* lines 222-240: step 1 answered; step 2 is issued to the URL received.
UploadUrlResponse ==
    /\ pc = "upload_url"
    /\ \E a \in UploadUrlAnswers :
         IF a.kind = "json" /\ a.ok /\ upload_url_usable(a)
         THEN /\ pf' = [pf EXCEPT !.url_answer = a,
                                  !.upload_target = a.upload_url,
                                  !.file_id = a.file_id]
              /\ trace' = Append(trace, Call("upload"))
              /\ pc' = "upload_file"
         ELSE /\ pf' = [pf EXCEPT !.url_answer = a,
                                  !.returned = IF a.kind = "json"
                                               THEN Returns(FALSE)
                                               ELSE notify_except]
              /\ pc' = "notified"
              /\ UNCHANGED trace
    /\ UNCHANGED notify_frame

\* lines 238-260: step 2 answered; step 3 is issued for the file id received.
UploadResponse ==
    /\ pc = "upload_file"
    /\ \E a \in UploadAnswers :
         IF a = "ok"
         THEN /\ pf' = [pf EXCEPT !.upload_answer = a, !.completed_id = pf.file_id]
              /\ trace' = Append(trace, Call("files.completeUploadExternal"))
              /\ pc' = "complete"
         ELSE /\ pf' = [pf EXCEPT !.upload_answer = a, !.returned = notify_except]
              /\ pc' = "notified"
              /\ UNCHANGED trace
    /\ UNCHANGED notify_frame

\* lines 260-274: step 3 answered.
CompleteUploadResponse ==
    /\ pc = "complete"
    /\ \E a \in SlackAnswers :
         pf' = [pf EXCEPT !.complete_answer = a,
                          !.returned = IF a \in {"ok", "not_ok"}
                                       THEN Returns(a = "ok")
                                       ELSE notify_except]
    /\ pc' = "notified"
    /\ UNCHANGED <<trace, notify_frame>>

\* _send_message lines 38-53, send_crash_notification lines 74-75.
PostMessageResponse ==
    /\ pc = "post"
    /\ \E a \in SlackAnswers :
         pf' = [pf EXCEPT !.post_answer = a,
                          !.returned = IF a \in {"ok", "not_ok"}
                                       THEN Returns(a = "ok")
                                       ELSE notify_except]
    /\ pc' = "notified"
    /\ UNCHANGED <<trace, notify_frame>>

InitNotify ==
    /\ AtRest("send_crash_notification", "notify")
    /\ \E t \in CredValues, c \in CredValues, n \in 0..MaxHits :
         pf = [fn |-> "send_crash_notification", bot_token |-> t, channel |-> c,
               recent_logs |-> n, url_answer |-> NoUploadUrlAnswer,
               upload_answer |-> "none", complete_answer |-> "none",
               post_answer |-> "none", upload_target |-> "", file_id |-> "",
               completed_id |-> "", returned |-> NotReturned]

NextNotify ==
    \/ SendCrashNotification
    \/ UploadUrlResponse
    \/ UploadResponse
    \/ CompleteUploadResponse
    \/ PostMessageResponse

SpecNotify == InitNotify /\ [][NextNotify]_vars

(***************************************************************************)
(* daily_summary.DailySummaryProcessor.get_crash_events_from_last_24_hours *)
(* (27-84): the pagination loop over filter_log_events.                    *)
(***************************************************************************)
MaxPages == 3
MaxPageEvents == 2

\* The variables the query leaves alone.
summary_frame == <<env, crash_info, enriched, entry, log_destination, logs,
                   log_config, log_stream, result, sn, cw, stub>>

\* Messages of stored events: a JSON document and a text that is not JSON.
CrashEventTexts == {"{\"a\": 1}", "not json"}

\* The log group within the window: at least one page (an empty group answers
\* with one page without events), each page a list of messages.
CrashPages == SeqsUpTo(CrashEventTexts, MaxPageEvents)
CrashLogGroups == UNION {[1..k -> CrashPages] : k \in 1..MaxPages}

\* No token: None in the code, a missing nextToken in a response.
NoToken == 0

\* The event the service stores at position i of page p.
event_at(group, p, i) ==
    [timestamp |-> (p - 1) * MaxPageEvents + i,
     message |-> group[p][i],
     ingestionTime |-> (p - 1) * MaxPageEvents + i + 1]

\* The service's answer to a request with token t: the page after page t, and
\* the token for the following page if there is one.
page_for(t) == t + 1
next_token_of(group, p) == IF p < Len(group) THEN p ELSE NoToken

\* json.loads(event['message']), line 61.
parse_crash_message(m) ==
    IF m = "{\"a\": 1}"
    THEN [exc |-> "", val |-> "dict"]
    ELSE [exc |-> "JSONDecodeError", val |-> ""]

\* Variant of lines 52-53 that never passes the token on.
request_token_dropped(next_token) == NoToken

\* lines 45-53: the request carries nextToken when next_token is truthy.
request_token(next_token) == IF next_token # NoToken THEN next_token ELSE NoToken

\* lines 58-69: the loop over the events of a page, from position i.
RECURSIVE collect_events(_, _, _, _)
collect_events(group, p, i, acc) ==
    IF i > Len(group[p]) THEN acc
    ELSE LET event == event_at(group, p, i)
             message_data == parse_crash_message(event.message)
         IN  IF message_data.exc = "JSONDecodeError"
             THEN collect_events(group, p, i + 1, acc)
             ELSE collect_events(group, p, i + 1,
                      Append(acc, [timestamp |-> event.timestamp,
                                   message |-> message_data.val,
                                   ingestion_time |-> event.ingestionTime]))

\* lines 78-79: the events collected so far are returned.
ReturnEvents(events) == [set |-> TRUE, raised |-> FALSE, events |-> events]

\* lines 29-56: the window, the empty list, the first request.
GetCrashEvents ==
    /\ pc = "summary"
    /\ pf' = [pf EXCEPT !.requests = <<request_token(pf.next_token)>>]
    /\ trace' = Append(trace, Call("filter_log_events"))
    /\ pc' = "page"
    /\ UNCHANGED summary_frame

\* lines 56, 75-79: the query raises; the loop is left.
FilterLogEventsRaises ==
    /\ pc = "page"
    /\ pf' = [pf EXCEPT !.query_raised = TRUE, !.returned = ReturnEvents(pf.events)]
    /\ pc' = "returned"
    /\ UNCHANGED <<trace, summary_frame>>

\* lines 56-73, then 45-56 or 78-79: a page arrives.
FilterLogEventsPage ==
    /\ pc = "page"
    /\ page_for(pf.requests[Len(pf.requests)]) \in DOMAIN pf.group
    /\ LET p == page_for(pf.requests[Len(pf.requests)])
           events == collect_events(pf.group, p, 1, pf.events)
           next_token == next_token_of(pf.group, p)
       IN  IF next_token # NoToken
           THEN /\ pf' = [pf EXCEPT !.events = events,
                                    !.next_token = next_token,
                                    !.pages = Append(pf.pages, p),
                                    !.tokens = Append(pf.tokens, next_token),
                                    !.requests = Append(pf.requests, request_token(next_token))]
                /\ trace' = Append(trace, Call("filter_log_events"))
                /\ pc' = "page"
           ELSE /\ pf' = [pf EXCEPT !.events = events,
                                    !.next_token = next_token,
                                    !.pages = Append(pf.pages, p),
                                    !.tokens = Append(pf.tokens, next_token),
                                    !.returned = ReturnEvents(events)]
                /\ pc' = "returned"
                /\ UNCHANGED trace
    /\ UNCHANGED summary_frame

InitSummary ==
    /\ AtRest("get_crash_events_from_last_24_hours", "summary")
    /\ \E g \in CrashLogGroups :
         pf = [fn |-> "get_crash_events_from_last_24_hours", group |-> g,
               events |-> << >>, next_token |-> NoToken, requests |-> << >>,
               pages |-> << >>, tokens |-> << >>, query_raised |-> FALSE,
               returned |-> [set |-> FALSE, raised |-> FALSE, events |-> << >>]]

NextSummary ==
    \/ GetCrashEvents
    \/ FilterLogEventsRaises
    \/ FilterLogEventsPage

SpecSummary == InitSummary /\ [][NextSummary]_vars

(***************************************************************************)
(* Vocabulary of the properties                                            *)
(***************************************************************************)
EsActivity == {"get_elasticsearch_logs", "es_search"}
CxActivity == {"get_coralogix_logs", "coralogix_query"}
CwActivity == {"get_cloudwatch_logs", "describe_task_definition",
               "describe_log_streams_prefix", "describe_log_streams_recent",
               "filter_log_events"}

\* The outbound calls a resolution (get_recent_logs) can issue.
ResolutionCalls == {"es_search", "coralogix_query", "describe_task_definition",
                    "describe_log_streams_prefix", "describe_log_streams_recent",
                    "filter_log_events"}

Issued(api) == \E i \in DOMAIN trace : trace[i] = Call(api)
Entered(fn) == \E i \in DOMAIN trace : trace[i] = Enter(fn)

\* Event i is the start of an attempt on, or a call to, a backend.
IsBackendActivity(e) ==
    e.kind \in {"call", "enter"} /\ e.who \in EsActivity \cup CxActivity \cup CwActivity

\* Some adapter returned at least one entry.
Supplied(b) == \E i \in DOMAIN trace :
    trace[i].kind = "ret" /\ trace[i].who = b /\ trace[i].n > 0

\* get_recent_logs has returned to its caller.
GrlReturned ==
    /\ Entered("get_recent_logs")
    /\ pc \in {"enrich_logs", "enrich_details", "details_wait", "done"}

EsConfiguredAndEnabled ==
    /\ env.ENABLE_ELASTICSEARCH_INTEGRATION \in {"true", "TRUE"}
    /\ env.ELASTICSEARCH_ENDPOINT # ""
    /\ env.ELASTICSEARCH_USERNAME # ""
    /\ env.ELASTICSEARCH_PASSWORD # ""

CxConfiguredAndEnabled ==
    /\ env.ENABLE_CORALOGIX_INTEGRATION \in {"true", "TRUE"}
    /\ env.CORALOGIX_API_KEY # ""
    /\ env.CORALOGIX_REGION # ""

(***************************************************************************)
(* C1.  A crash context without a task ARN: get_recent_logs issues no      *)
(* outbound call (no Elasticsearch or Coralogix request, no task           *)
(* definition lookup, no log stream lookup, no event read), whatever the   *)
(* flags and credentials, and returns the empty sequence.                  *)
(***************************************************************************)
C1_NoTaskArnNoCalls ==
    crash_info.task_arn = << >> =>
        /\ \A i \in DOMAIN trace :
               trace[i].kind = "call" => trace[i].who \notin ResolutionCalls
        /\ pc # "raised"
        /\ GrlReturned => result = << >>

C1_Witness ==
    /\ GrlReturned
    /\ crash_info.task_arn = << >>
    /\ crash_info.failed_container.name # << >>
    /\ EsConfiguredAndEnabled
    /\ Entered("get_elasticsearch_logs")
    /\ Entered("get_cloudwatch_logs")

(***************************************************************************)
(* C2.  Short circuit: after an adapter has returned at least one entry no *)
(* backend is attempted or called any more in that resolution; with both   *)
(* Elasticsearch and Coralogix configured and enabled and Elasticsearch    *)
(* answering with entries, neither Coralogix nor CloudWatch is touched.    *)
(***************************************************************************)
C2_ShortCircuit ==
    /\ \A i \in DOMAIN trace :
           (trace[i].kind = "ret" /\ trace[i].n > 0) =>
               \A j \in DOMAIN trace : j > i => ~IsBackendActivity(trace[j])
    /\ (EsConfiguredAndEnabled /\ CxConfiguredAndEnabled /\ Supplied("elasticsearch")) =>
           \A j \in DOMAIN trace : trace[j].who \notin CxActivity \cup CwActivity

C2_Witness ==
    /\ pc = "done"
    /\ entry = "enrich_crash_data"
    /\ EsConfiguredAndEnabled
    /\ CxConfiguredAndEnabled
    /\ Supplied("elasticsearch")
    /\ result # << >>

(***************************************************************************)
(* C3.  With a failed container and a task ARN present, a resolution in    *)
(* which no higher-priority backend supplied entries does not end without  *)
(* get_cloudwatch_logs having been attempted, for every value of the       *)
(* enable flags; with a container name and a task definition ARN the       *)
(* attempt reaches the task definition lookup.                             *)
(***************************************************************************)
C3_CloudWatchFallback ==
    (/\ GrlReturned
     /\ ~crash_info.failed_container.isNone
     /\ crash_info.task_arn # << >>
     /\ ~Supplied("elasticsearch")
     /\ ~Supplied("coralogix")) =>
        /\ Entered("get_cloudwatch_logs")
        /\ (crash_info.failed_container.name # << >>
              /\ crash_info.task_definition_arn # "") =>
               Issued("describe_task_definition")

C3_Witness ==
    /\ GrlReturned
    /\ \E i \in DOMAIN trace :
           trace[i].kind = "ret" /\ trace[i].who = "elasticsearch"
               /\ trace[i].outcome = "ok" /\ trace[i].n = 0
    /\ Issued("describe_task_definition")

(***************************************************************************)
(* C4 as stated.  With both Elasticsearch and Coralogix configured and     *)
(* enabled, an Elasticsearch query that answers with no hits is followed   *)
(* by a Coralogix query before CloudWatch is attempted.                    *)
(***************************************************************************)
C4_AsStated ==
    (EsConfiguredAndEnabled /\ CxConfiguredAndEnabled) =>
        \A i \in DOMAIN trace :
            (trace[i].kind = "ret" /\ trace[i].who = "elasticsearch"
                /\ trace[i].outcome = "ok" /\ trace[i].n = 0) =>
                \A j \in DOMAIN trace :
                    (j > i /\ trace[j] = Enter("get_cloudwatch_logs")) =>
                        \E k \in (i + 1)..(j - 1) : trace[k] = Call("coralogix_query")

(***************************************************************************)
(* C4 amended.  A resolution has one primary backend, Elasticsearch if it  *)
(* is configured and enabled, otherwise Coralogix if it is configured and  *)
(* enabled, and CloudWatch after it: Elasticsearch and Coralogix are never *)
(* both attempted, every attempt on them precedes every CloudWatch         *)
(* activity, and an empty result of the primary backend is followed        *)
(* directly by the CloudWatch attempt.  With both configured and enabled   *)
(* and Elasticsearch empty, Coralogix is not queried.                      *)
(***************************************************************************)
C4_PrimaryThenCloudWatch ==
    /\ ~(Entered("get_elasticsearch_logs") /\ Entered("get_coralogix_logs"))
    /\ Entered("get_coralogix_logs") => ~EsConfiguredAndEnabled
    /\ \A i, j \in DOMAIN trace :
           (trace[i].who \in EsActivity \cup CxActivity /\ trace[j].who \in CwActivity)
               => i < j
    /\ \A i \in DOMAIN trace :
           (trace[i].kind = "ret" /\ trace[i].who \in {"elasticsearch", "coralogix"}
               /\ trace[i].n = 0 /\ pc # "L45" /\ pc # "L58") =>
                   (i < Len(trace) /\ trace[i + 1] = Enter("get_cloudwatch_logs"))

C4_Witness ==
    /\ EsConfiguredAndEnabled
    /\ CxConfiguredAndEnabled
    /\ \E i \in DOMAIN trace :
           trace[i].kind = "ret" /\ trace[i].who = "elasticsearch" /\ trace[i].n = 0
    /\ Supplied("cloudwatch")
    /\ pc = "done"

(***************************************************************************)
(* C5.  Once an adapter has returned at least one entry, log_source is     *)
(* that backend's name in every later state, and the enriched record built *)
(* by enrich_crash_data carries the same name.                             *)
(***************************************************************************)
C5_HintFixedAfterSuccess ==
    \A b \in {"elasticsearch", "coralogix", "cloudwatch"} :
        Supplied(b) =>
            /\ crash_info.log_source = b
            /\ (entry = "enrich_crash_data"
                  /\ pc \in {"enrich_details", "details_wait", "done"}) =>
                   enriched.log_source = b

C5_Witness ==
    /\ pc = "done"
    /\ entry = "enrich_crash_data"
    /\ Supplied("coralogix")
    /\ enriched.log_source = "coralogix"
    /\ enriched.has_details

(***************************************************************************)
(* C6 as stated.  When get_recent_logs returns, log_source names the       *)
(* backend that supplied the returned entries, and is not set when no      *)
(* backend supplied any.                                                   *)
(***************************************************************************)
C6_HintNamesSupplier ==
    GrlReturned =>
        IF result # << >>
        THEN crash_info.log_source = result[1].backend
        ELSE crash_info.log_source = NOT_SET

(***************************************************************************)
(* C7.  Every adapter fails soft: a call that ends in a network error, an  *)
(* HTTP error status, a malformed response or no results makes the adapter *)
(* return the empty sequence, and no adapter lets an exception escape.     *)
(***************************************************************************)
C7_AdaptersFailSoft ==
    /\ \A i \in DOMAIN trace :
           /\ trace[i].kind # "raise"
           /\ (trace[i].kind = "ret" /\ trace[i].outcome # "ok") => trace[i].n = 0
    /\ pc # "raised"

C7_Witness ==
    /\ GrlReturned
    /\ \E i \in DOMAIN trace :
           trace[i].kind = "ret" /\ trace[i].who = "elasticsearch"
               /\ trace[i].outcome = "http_error"
    /\ \E i \in DOMAIN trace :
           trace[i].kind = "ret" /\ trace[i].who = "cloudwatch"
               /\ trace[i].outcome = "error"

(***************************************************************************)
(* C8.  A timeout or transport failure of the Elasticsearch or Coralogix   *)
(* request gives the empty result for that backend only: the resolution    *)
(* goes on to the CloudWatch attempt, and get_recent_logs returns a        *)
(* sequence instead of raising.                                            *)
(***************************************************************************)
C8_TransportFailureFallsBack ==
    /\ pc # "raised"
    /\ \A i \in DOMAIN trace :
           (trace[i].who \in {"elasticsearch", "coralogix"}
               /\ trace[i].outcome \in {"timeout", "connection_error"}) =>
                   /\ trace[i].kind = "ret"
                   /\ trace[i].n = 0
                   /\ GrlReturned => Entered("get_cloudwatch_logs")

C8_Witness ==
    /\ GrlReturned
    /\ \E i \in DOMAIN trace :
           trace[i].kind = "ret" /\ trace[i].who = "coralogix"
               /\ trace[i].outcome = "timeout"
    /\ Supplied("cloudwatch")
    /\ result # << >>

(***************************************************************************)
(* C9.  A request goes to Elasticsearch only if its enable flag is 'true'  *)
(* (compared in lower case) and endpoint, username and password are set;   *)
(* a request goes to Coralogix only if its enable flag is 'true' and API   *)
(* key and region are set.  A backend lacking any of these is not even     *)
(* attempted.                                                              *)
(***************************************************************************)
C9_OnlyConfiguredAndEnabled ==
    /\ (Issued("es_search") \/ Entered("get_elasticsearch_logs")) => EsConfiguredAndEnabled
    /\ (Issued("coralogix_query") \/ Entered("get_coralogix_logs")) => CxConfiguredAndEnabled

C9_Witness ==
    /\ Issued("coralogix_query")
    /\ env.ENABLE_ELASTICSEARCH_INTEGRATION = "false"
    /\ env.ELASTICSEARCH_ENDPOINT # ""
    /\ env.ELASTICSEARCH_USERNAME # ""
    /\ env.ELASTICSEARCH_PASSWORD # ""
    /\ pc = "done"

(***************************************************************************)
(* C10.  The candidate stream name is prefix/container/taskId when the     *)
(* prefix is not empty and container/taskId, with nothing before the       *)
(* container name, when it is empty; taskId is the part of the task ARN    *)
(* after its last '/', the whole ARN if it has none.                       *)
(***************************************************************************)
C10_StreamName ==
    (sn.done /\ sn.built) =>
        \E k \in 0..Len(sn.task_arn) :
            LET t == SubSeq(sn.task_arn, k + 1, Len(sn.task_arn))
            IN  /\ \A m \in DOMAIN t : t[m] # SLASH
                /\ k = 0 \/ sn.task_arn[k] = SLASH
                /\ IF sn.prefix # << >>
                   THEN sn.stream = sn.prefix \o <<SLASH>> \o sn.container
                                        \o <<SLASH>> \o t
                   ELSE sn.stream = sn.container \o <<SLASH>> \o t

C10_Witness ==
    /\ sn.done
    /\ sn.built
    /\ sn.prefix = << >>
    /\ sn.task_arn = <<SLASH, "a">>
    /\ sn.stream = sn.container \o <<SLASH, "a">>


(***************************************************************************)
(* Vocabulary of the CloudWatch stream lookups                             *)
(***************************************************************************)
\* Position of the first occurrence of event e in the history, 0 if none.
PosOf(e) ==
    IF \E i \in DOMAIN trace : trace[i] = e
    THEN CHOOSE i \in DOMAIN trace :
             trace[i] = e /\ \A j \in 1..(i - 1) : trace[j] # e
    ELSE 0

\* The name is one of this task: it contains the task id.
OfThisTask(name) == Contains(name, task_id_of(crash_info.task_arn))

FirstLookupFound == cw.first_answered /\ cw.first # << >>
FirstLookupEmpty == cw.first_answered /\ cw.first = << >>
RecentLookupFound ==
    cw.recent_answered /\ \E i \in DOMAIN cw.recent : OfThisTask(cw.recent[i])
RecentLookupNoMatch ==
    cw.recent_answered /\ \A i \in DOMAIN cw.recent : ~OfThisTask(cw.recent[i])

(***************************************************************************)
(* C11.  The CloudWatch lookups are ordered.  The broad lookup of the most *)
(* recent streams is issued only after the candidate-name lookup has       *)
(* answered with no stream; the stream chosen from the broad lookup is the *)
(* first one, in the order returned, whose name contains the task id; and  *)
(* the event read is issued only after one of the two lookups has produced *)
(* a stream.                                                               *)
(***************************************************************************)
C11_LookupOrder ==
    /\ Issued("describe_log_streams_recent") =>
           /\ Issued("describe_log_streams_prefix")
           /\ PosOf(Call("describe_log_streams_prefix"))
                  < PosOf(Call("describe_log_streams_recent"))
           /\ FirstLookupEmpty
    /\ Issued("filter_log_events") =>
           /\ FirstLookupFound \/ RecentLookupFound
           /\ PosOf(Call("describe_log_streams_prefix"))
                  < PosOf(Call("filter_log_events"))
           /\ Issued("describe_log_streams_recent") =>
                  PosOf(Call("describe_log_streams_recent"))
                      < PosOf(Call("filter_log_events"))
    /\ (Issued("filter_log_events") /\ cw.recent_answered) =>
           \E i \in DOMAIN cw.recent :
               /\ OfThisTask(cw.recent[i])
               /\ \A j \in 1..(i - 1) : ~OfThisTask(cw.recent[j])
               /\ log_stream = cw.recent[i]

\* The broad lookup listed two streams of this task, after one of another
\* task or not, and the events of the first were read.
C11_Witness ==
    /\ Issued("filter_log_events")
    /\ FirstLookupEmpty
    /\ cw.recent_answered
    /\ Len(cw.recent) = 2
    /\ OfThisTask(cw.recent[1]) /\ OfThisTask(cw.recent[2])
    /\ cw.recent[1] # cw.recent[2]
    /\ log_stream = cw.recent[1]

(***************************************************************************)
(* C12.  When neither the candidate stream nor any stream whose name       *)
(* contains the task id exists, or when a stream lookup raises, the        *)
(* CloudWatch adapter returns the empty sequence: no event read is issued  *)
(* and nothing is raised.                                                  *)
(***************************************************************************)
C12_NoStreamNoRead ==
    ((FirstLookupEmpty /\ RecentLookupNoMatch) \/ cw.lookup_raised) =>
        /\ ~Issued("filter_log_events")
        /\ pc \notin {"raised", "cw_ds1", "cw_ds2", "cw_events"}
        /\ \A i \in DOMAIN trace : trace[i].kind # "raise"
        /\ \E i \in DOMAIN trace :
               trace[i].kind = "ret" /\ trace[i].who = "cloudwatch"
        /\ \A i \in DOMAIN trace :
               (trace[i].kind = "ret" /\ trace[i].who = "cloudwatch") =>
                   trace[i].n = 0
        /\ logs = << >>

\* The broad lookup listed only a stream of another task.
C12_Witness ==
    /\ GrlReturned
    /\ FirstLookupEmpty
    /\ RecentLookupNoMatch
    /\ cw.recent # << >>
    /\ result = << >>

(***************************************************************************)
(* C13.  Whenever the first lookup (by name prefix) returns a stream, the  *)
(* stream whose events are read has the constructed candidate name.        *)
(***************************************************************************)
C13_ReadsCandidate ==
    (FirstLookupFound /\ Issued("filter_log_events")) =>
        log_stream = cw.candidate


(***************************************************************************)
(* C14.  get_log_configuration_from_task_def returns a configuration only  *)
(* when the task definition has a container definition whose name equals   *)
(* the crashed container's name exactly and whose log driver is awslogs,   *)
(* and then it is the options of such a definition.  Without a task        *)
(* definition ARN, without a container name, without such a definition, or *)
(* when the lookup fails, it returns None.  It never raises.               *)
(***************************************************************************)
HasAwslogsContainer ==
    \E i \in DOMAIN pf.response.containerDefinitions :
        /\ pf.response.containerDefinitions[i].name = pf.container_name
        /\ pf.response.containerDefinitions[i].logDriver = "awslogs"

C14_ConfigOnlyForAwslogsContainer ==
    pf.done =>
        /\ ~pf.out.raised
        /\ ~pf.out.isNone =>
               /\ HasAwslogsContainer
               /\ \E i \in DOMAIN pf.response.containerDefinitions :
                      /\ pf.response.containerDefinitions[i].name = pf.container_name
                      /\ pf.response.containerDefinitions[i].logDriver = "awslogs"
                      /\ pf.response.containerDefinitions[i].options = pf.out.options
        /\ (\/ ~Truthy(pf.task_definition_arn)
            \/ pf.container_name = << >>
            \/ pf.response.raised
            \/ ~HasAwslogsContainer) => pf.out.isNone

\* The crashed container's awslogs definition comes second, after a
\* definition whose name only starts with the container's name.
C14_Witness ==
    /\ pf.done
    /\ ~pf.out.isNone
    /\ Len(pf.response.containerDefinitions) = 2
    /\ pf.response.containerDefinitions[1].name # pf.container_name
    /\ pf.response.containerDefinitions[1].logDriver = "awslogs"
    /\ pf.response.containerDefinitions[1].options # pf.out.options


(***************************************************************************)
(* Vocabulary of the message extraction                                    *)
(***************************************************************************)
\* The field has a value other than null and ''.
Present(v) == v \notin {UNSET, NONE, ""}

\* The record's data is a non-empty object.
DataIsBlob == pf.data.kind = "dict" /\ pf.data.obj # EmptyObject
\* The record has no data, or an empty one.
DataIsEmpty ==
    pf.data.kind \in {"absent", "null"}
        \/ (pf.data.kind = "dict" /\ pf.data.obj = EmptyObject)
\* The userData text is a JSON object (a missing userData counts as '{}').
UserDataParses == pf.userData.kind \in {"absent", "object"}
\* The userData is not JSON text at all.
UserDataUnparseable == pf.userData.kind \in {"null", "empty", "invalid"}

\* Steps (1) to (3) of the precedence, on the data blob.
FromData ==
    /\ Present(pf.data.obj.message) => pf.message = Text(pf.data.obj.message)
    /\ (~Present(pf.data.obj.message) /\ Present(pf.data.obj.log)) =>
           pf.message = Text(pf.data.obj.log)
    /\ (~Present(pf.data.obj.message) /\ ~Present(pf.data.obj.log)) =>
           pf.message = StrOf("str(data)")

\* Step (4): the same on the parsed userData.
FromUserData ==
    /\ Present(pf.userData.obj.message) =>
           pf.message = Text(pf.userData.obj.message)
    /\ (~Present(pf.userData.obj.message) /\ Present(pf.userData.obj.log)) =>
           pf.message = Text(pf.userData.obj.log)
    /\ (~Present(pf.userData.obj.message) /\ ~Present(pf.userData.obj.log)) =>
           pf.message = StrOf("str(parsed userData)")

(***************************************************************************)
(* C15, as stated.  The message of a record is (1) data.message if         *)
(* non-empty, else (2) data.log if non-empty, else (3) the stringified     *)
(* data blob, else (4) the same on the parsed userData, else (5) the       *)
(* record stringified.  Stated for records whose data is an object or      *)
(* missing and whose userData is a JSON object or is not JSON.             *)
(***************************************************************************)
C15_AsStated ==
    pf.done =>
        /\ DataIsBlob => FromData
        /\ (DataIsEmpty /\ UserDataParses) => FromUserData
        /\ (DataIsEmpty /\ UserDataUnparseable) =>
               pf.message = StrOf("str(record)")

(***************************************************************************)
(* C15, amended.  Steps (1) to (4) as stated; when the userData cannot be  *)
(* parsed, the message is the raw userData text if that text is non-empty, *)
(* and the record stringified only when userData is null or ''.            *)
(***************************************************************************)
C15_Precedence ==
    pf.done =>
        /\ DataIsBlob => FromData
        /\ (DataIsEmpty /\ UserDataParses) => FromUserData
        /\ (DataIsEmpty /\ pf.userData.kind = "invalid") =>
               pf.message = StrOf("str(userData)")
        /\ (DataIsEmpty /\ pf.userData.kind \in {"null", "empty"}) =>
               pf.message = StrOf("str(record)")

\* A record without data whose userData is a text that is not JSON.
C15_Witness ==
    /\ pf.done
    /\ pf.data.kind = "absent"
    /\ pf.userData.kind = "invalid"
    /\ pf.message = StrOf("str(userData)")


(***************************************************************************)
(* C16.  The response body is newline-delimited JSON: every non-blank line *)
(* is parsed on its own, a line that does not parse is skipped without     *)
(* affecting the others, only lines with result.results contribute, and    *)
(* the records collected are those of all such lines, in line order.       *)
(***************************************************************************)
\* The records of lines k..Len(body) that carry result.results, in order.
RECURSIVE RecordsFrom(_)
RecordsFrom(k) ==
    IF k > Len(pf.body)
    THEN << >>
    ELSE (IF pf.body[k].kind = "results" THEN pf.body[k].results ELSE << >>)
             \o RecordsFrom(k + 1)

C16_LinesIndependent ==
    pf.done => pf.out.logs = RecordsFrom(1)


(***************************************************************************)
(* C17.  The timestamp of a DataPrime record is that of the first metadata *)
(* pair whose key is "timestamp".  When there is no such pair, or its      *)
(* value cannot be parsed, the entry is still produced and carries the     *)
(* current time, which is not before the time the adapter was called.      *)
(***************************************************************************)
\* i is the first metadata pair whose key is "timestamp".
IsFirstTimestampPair(i) ==
    /\ i \in DOMAIN pf.metadata
    /\ pf.metadata[i].key = "timestamp"
    /\ \A j \in 1..(i - 1) : pf.metadata[j].key # "timestamp"

C17_TimestampOrNow ==
    pf.done =>
        /\ Len(pf.log_entries) = 1
        /\ pf.now >= Reference
        /\ \A i \in DOMAIN pf.metadata :
               IsFirstTimestampPair(i) =>
                   IF pf.metadata[i].value.kind = "iso"
                   THEN pf.log_entries[1].timestamp
                            = pf.metadata[i].value.iso.sec * 1000
                                  + (pf.metadata[i].value.iso.micros \div 1000)
                   ELSE pf.log_entries[1].timestamp = pf.now
        /\ (\A i \in DOMAIN pf.metadata : pf.metadata[i].key # "timestamp") =>
               pf.log_entries[1].timestamp = pf.now

\* The first timestamp pair does not parse and a later one does: the entry
\* carries the current time, later than the call.
C17_Witness ==
    /\ pf.done
    /\ Len(pf.metadata) = 2
    /\ pf.metadata[1].key = "timestamp" /\ pf.metadata[1].value.kind = "invalid"
    /\ pf.metadata[2].key = "timestamp" /\ pf.metadata[2].value.kind = "iso"
    /\ pf.log_entries[1].timestamp = pf.now
    /\ pf.now > Reference


(***************************************************************************)
(* C19.  The sequence the DataPrime adapter returns is sorted by timestamp *)
(* in descending order (each element's timestamp is >= the next one's)    *)
(* and is a permutation of the entries built from the raw records.         *)
(***************************************************************************)
\* How many times e occurs in the sequence.
Occurrences(e, seq) == Cardinality({j \in DOMAIN seq : seq[j] = e})

C19_SortedPermutation ==
    pf.done =>
        /\ \A j \in 1..(Len(pf.out) - 1) :
               pf.out[j].timestamp >= pf.out[j + 1].timestamp
        /\ Len(pf.log_entries) = Len(pf.logs)
        /\ Len(pf.out) = Len(pf.log_entries)
        /\ \A j \in DOMAIN pf.log_entries :
               Occurrences(pf.log_entries[j], pf.out)
                   = Occurrences(pf.log_entries[j], pf.log_entries)

\* The entries were built oldest first and are returned newest first.
C19_Witness ==
    /\ pf.done
    /\ Len(pf.log_entries) = 2
    /\ pf.log_entries[1].timestamp < pf.log_entries[2].timestamp
    /\ pf.out = <<pf.log_entries[2], pf.log_entries[1]>>


(***************************************************************************)
(* C18.  Every entry has a timestamp that is a non-negative integer of     *)
(* epoch milliseconds; the Elasticsearch adapter converts the ISO-8601     *)
(* '@timestamp' of a hit to epoch milliseconds.                            *)
(***************************************************************************)
C18_EpochMillis ==
    pf.done =>
        \A i \in DOMAIN pf.log_entries :
            /\ pf.log_entries[i].timestamp.type = "int"
            /\ pf.log_entries[i].timestamp.ms >= 0
            /\ pf.hits[i].has_timestamp =>
                   pf.log_entries[i].timestamp.ms
                       = pf.hits[i].iso.sec * 1000 + (pf.hits[i].iso.micros \div 1000)


(***************************************************************************)
(* C20.  The CloudWatch adapter maps the events of its event read one to   *)
(* one: the result has the length and the order of the event list, entry i *)
(* has event i's timestamp unchanged and event i's message without its     *)
(* surrounding whitespace; no event is dropped, reordered or filtered.     *)
(***************************************************************************)
\* t is m without a run of a leading and a run of b trailing blanks, and
\* neither begins nor ends with a blank.
IsTrimOf(t, m) ==
    \E a \in 0..Len(m), b \in 0..Len(m) :
        /\ a + b <= Len(m)
        /\ \A k \in 1..a : m[k] \in Whitespace
        /\ \A k \in (Len(m) - b + 1)..Len(m) : m[k] \in Whitespace
        /\ t = SubSeq(m, a + 1, Len(m) - b)
        /\ t # << >> => (t[1] \notin Whitespace /\ t[Len(t)] \notin Whitespace)

SecondRunReturned == stub.run = 2 /\ pc = "done"

TimesIssued(api) == Cardinality({i \in DOMAIN trace : trace[i] = Call(api)})

\* The backend an event of the history belongs to.
BackendOf(e) ==
    IF e.who \in EsActivity \cup {"elasticsearch"} THEN "elasticsearch"
    ELSE IF e.who \in CxActivity \cup {"coralogix"} THEN "coralogix"
    ELSE IF e.who \in CwActivity \cup {"cloudwatch"} THEN "cloudwatch"
    ELSE "none"

C22_SequentialNoRetry ==
    /\ TimesIssued("es_search") <= 1
    /\ TimesIssued("coralogix_query") <= 1
    /\ TimesIssued("filter_log_events") <= 1
    /\ \A i \in DOMAIN trace : \A j \in 1..(i - 1) :
           (/\ IsBackendActivity(trace[i])
            /\ IsBackendActivity(trace[j])
            /\ BackendOf(trace[j]) # BackendOf(trace[i])) =>
               \E k \in (j + 1)..(i - 1) :
                   /\ trace[k].kind = "ret"
                   /\ trace[k].who = BackendOf(trace[j])

\* Elasticsearch was queried and failed with a timeout, then the CloudWatch
\* events were read.
C22_Witness ==
    /\ GrlReturned
    /\ TimesIssued("es_search") = 1
    /\ \E i \in DOMAIN trace :
           trace[i].kind = "ret" /\ trace[i].who = "elasticsearch"
               /\ trace[i].outcome = "timeout"
    /\ TimesIssued("filter_log_events") = 1


(***************************************************************************)
(* C24.  The CloudWatch routing comes from the task definition only: a     *)
(* log stream lookup or an event read is preceded, in the same resolution, *)
(* by a task definition lookup that answered with an awslogs configuration *)
(* with a non-empty group for the crashed container, and the group the     *)
(* lookups and the event read are sent to is the group of that             *)
(* configuration, never a default.                                         *)
(***************************************************************************)
StreamCalls == {"describe_log_streams_prefix", "describe_log_streams_recent",
                "filter_log_events"}

C24_RoutingFromTaskDef ==
    \A i \in DOMAIN trace :
        (trace[i].kind = "call" /\ trace[i].who \in StreamCalls) =>
            /\ \E j \in 1..(i - 1) : trace[j] = Call("describe_task_definition")
            /\ stub.answers.taskdef.set
            /\ stub.answers.taskdef.val.kind = "awslogs"
            /\ stub.answers.taskdef.val.group # << >>
            /\ cw.group = stub.answers.taskdef.val.group
            /\ log_config.group = stub.answers.taskdef.val.group

\* The events were read in the group the task definition names.
C24_Witness ==
    /\ GrlReturned
    /\ Issued("filter_log_events")
    /\ stub.answers.taskdef.val.group = LogGroup
    /\ cw.group = LogGroup

(***************************************************************************)
(* C25.  get_recent_logs changes no field of the crash context other than  *)
(* the backend hint log_source, whatever the backends answer.              *)
(***************************************************************************)
C25_OnlyHintChanges ==
    [][crash_info' = [crash_info EXCEPT !.log_source = crash_info'.log_source]]_vars

(***************************************************************************)
(* C26.  Every event read of the CloudWatch adapter targets a stream whose *)
(* name contains the id of the crashed task, whichever lookup produced the *)
(* stream (the prefix lookup answering only with names that start with the *)
(* requested prefix).                                                      *)
(***************************************************************************)
C26_StreamOfTheTask ==
    Issued("filter_log_events") =>
        /\ crash_info.task_arn # << >>
        /\ Contains(log_stream, LastSegment(crash_info.task_arn))

\* The stream came from the broad lookup, which also listed another task.
C26_Witness ==
    /\ Issued("filter_log_events")
    /\ cw.recent_answered
    /\ \E i \in DOMAIN cw.recent : ~Contains(cw.recent[i], TaskId)
    /\ Contains(log_stream, TaskId)


(***************************************************************************)
(* C23.  The failed container is the first container of the event, in      *)
(* event order, with a non-zero exit code, and that exit code is recorded. *)
(* Only when no container has a non-zero exit code is the first container  *)
(* selected, with the exit code left absent; the exit code is absent, and  *)
(* a launch failure reported, exactly then.                                *)
(***************************************************************************)
\* Container i of the event exited with a non-zero code.
Failed(i) == pf.containers[i].hasExitCode /\ pf.containers[i].exitCode # 0

C23_FirstFailedContainer ==
    pf.done =>
        /\ \A i \in DOMAIN pf.containers :
               (Failed(i) /\ \A j \in 1..(i - 1) : ~Failed(j)) =>
                   /\ ~pf.out.isNone
                   /\ pf.out.container = pf.containers[i]
                   /\ pf.out.exit_code = [isNone |-> FALSE,
                                          val |-> pf.containers[i].exitCode]
        /\ (pf.containers # << >> /\ \A i \in DOMAIN pf.containers : ~Failed(i)) =>
               /\ ~pf.out.isNone
               /\ pf.out.container = pf.containers[1]
        /\ pf.out.exit_code.isNone <=> (\A i \in DOMAIN pf.containers : ~Failed(i))
        /\ is_launch_failure(pf.out) <=> (\A i \in DOMAIN pf.containers : ~Failed(i))

\* A container that exited with 0, then two that failed: the second of the
\* three is selected.
C23_Witness ==
    /\ pf.done
    /\ Len(pf.containers) = 3
    /\ pf.containers[1].hasExitCode /\ pf.containers[1].exitCode = 0
    /\ Failed(2) /\ Failed(3)
    /\ pf.containers[2] # pf.containers[3]
    /\ pf.out.container = pf.containers[2]
    /\ pf.out.exit_code.val = pf.containers[2].exitCode


(***************************************************************************)
(* C27.  The DataPrime adapter produces one entry per raw record whatever  *)
(* the shape of the record's data and userData: no shape makes the         *)
(* conversion of a record raise, which would lose the entries of the other *)
(* records.                                                                *)
(***************************************************************************)
C27_EveryShapeGivesAnEntry ==
    pf.done => ~pf.message.raised


(***************************************************************************)
(* C28.  The two tests of "Coralogix enabled and configured" agree: for    *)
(* every environment in which Elasticsearch is not selected,               *)
(* detect_log_destination selects Coralogix exactly when                   *)
(* is_coralogix_enabled is true; so when Coralogix is the backend queried  *)
(* for a task, generate_coralogix_ui_link returns a link.                  *)
(***************************************************************************)
C28_EnabledTestsAgree ==
    pf.done =>
        /\ pf.destination # "elasticsearch" =>
               ((pf.destination = "coralogix") <=> pf.enabled)
        /\ pf.destination = "coralogix" => ~pf.link.isNone


(***************************************************************************)
(* C29.  The notification with a file takes three steps in order: get the  *)
(* upload URL, upload the file, complete the upload.  A step is issued     *)
(* only if every earlier step succeeded (the URL answer is ok and has both *)
(* upload_url and file_id; the upload had no HTTP error).  The function    *)
(* returns True only if all three succeeded; on the first failure it       *)
(* returns False, issues no later step and does not raise.                 *)
(***************************************************************************)
UrlStepSucceeded ==
    /\ pf.url_answer.kind = "json"
    /\ pf.url_answer.ok
    /\ pf.url_answer.upload_url # ""
    /\ pf.url_answer.file_id # ""
UrlStepFailed == pf.url_answer.kind # "none" /\ ~UrlStepSucceeded
UploadStepFailed == pf.upload_answer \notin {"none", "ok"}
CompleteStepFailed == pf.complete_answer \notin {"none", "ok"}
ReturnedFalse == pf.returned.set /\ ~pf.returned.value

C29_ThreeStepsInOrder ==
    /\ ~pf.returned.raised /\ pc # "raised"
    /\ TimesIssued("files.getUploadURLExternal") <= 1
    /\ TimesIssued("upload") <= 1
    /\ TimesIssued("files.completeUploadExternal") <= 1
    /\ Issued("upload") =>
           /\ Issued("files.getUploadURLExternal")
           /\ PosOf(Call("files.getUploadURLExternal")) < PosOf(Call("upload"))
           /\ UrlStepSucceeded
           /\ pf.upload_target = pf.url_answer.upload_url
    /\ Issued("files.completeUploadExternal") =>
           /\ Issued("upload")
           /\ PosOf(Call("upload")) < PosOf(Call("files.completeUploadExternal"))
           /\ pf.upload_answer = "ok"
           /\ pf.completed_id = pf.url_answer.file_id
    /\ (pf.returned.set /\ pf.returned.value /\ pf.recent_logs > 0) =>
           /\ UrlStepSucceeded
           /\ pf.upload_answer = "ok"
           /\ pf.complete_answer = "ok"
    /\ UrlStepFailed => (ReturnedFalse /\ ~Issued("upload"))
    /\ UploadStepFailed => (ReturnedFalse /\ ~Issued("files.completeUploadExternal"))
    /\ CompleteStepFailed => ReturnedFalse

\* The URL answer was usable, the upload failed: False, and no third step.
C29_Witness ==
    /\ pc = "notified"
    /\ UrlStepSucceeded
    /\ pf.upload_answer = "http_error"
    /\ ReturnedFalse
    /\ ~Issued("files.completeUploadExternal")


(***************************************************************************)
(* C30.  get_crash_events_from_last_24_hours terminates: it issues at most *)
(* one request per page of the log group, the loop is left exactly when a  *)
(* page comes without a nextToken or a query raises, every later request   *)
(* carries the nextToken of the page before it, and the function returns,  *)
(* without raising, the events of the pages read whose message is JSON, in *)
(* order.                                                                  *)
(***************************************************************************)
IsJson(m) == m = "{\"a\": 1}"

\* The stored events of pages 1..k whose message is JSON, as (page, position).
RECURSIVE JsonEventsUpTo(_)
JsonEventsUpTo(k) ==
    IF k = 0 THEN << >>
    ELSE JsonEventsUpTo(k - 1)
         \o SelectSeq([i \in 1..Len(pf.group[k]) |-> <<k, i>>],
                      LAMBDA e : IsJson(pf.group[k][e[2]]))

LastPageWithoutToken ==
    Len(pf.tokens) > 0 /\ pf.tokens[Len(pf.tokens)] = NoToken

C30_PaginationEnds ==
    pf.fn = "get_crash_events_from_last_24_hours" =>
        /\ Len(pf.requests) <= Len(pf.group)
        /\ TimesIssued("filter_log_events") = Len(pf.requests)
        /\ pf.pages = [i \in 1..Len(pf.pages) |-> i]
        /\ \A i \in DOMAIN pf.requests :
               pf.requests[i] = IF i = 1 THEN NoToken ELSE pf.tokens[i - 1]
        /\ pc = "page" => (~pf.query_raised /\ ~LastPageWithoutToken
                           /\ Len(pf.requests) = Len(pf.pages) + 1)
        /\ pc = "returned" <=> (pf.query_raised \/ LastPageWithoutToken)
        /\ pc = "returned" <=> pf.returned.set
        /\ ~pf.returned.raised
        /\ pf.returned.set =>
               LET expected == JsonEventsUpTo(Len(pf.pages))
               IN  /\ Len(pf.returned.events) = Len(expected)
                   /\ \A j \in DOMAIN expected :
                          LET stored == event_at(pf.group, expected[j][1], expected[j][2])
                          IN  /\ pf.returned.events[j].timestamp = stored.timestamp
                              /\ pf.returned.events[j].ingestion_time = stored.ingestionTime
                              /\ pf.returned.events[j].message = "dict"

\* Two pages were read, one held a message that is not JSON, the third query
\* raised: the parsed events of the two pages are returned.
C30_Witness ==
    /\ pf.fn = "get_crash_events_from_last_24_hours"
    /\ pc = "returned"
    /\ pf.query_raised
    /\ Len(pf.pages) = 2
    /\ \E i \in DOMAIN pf.group[1] : ~IsJson(pf.group[1][i])
    /\ Len(pf.returned.events) >= 2

=============================================================================
